---- MODULE Spec2Model ----
(***************************************************************************)
(* A model of column-py's ColumnClient (src/column/client.py): the client  *)
(* facade, the request each method builds, the shared response handler,    *)
(* pydantic's validation of response bodies into the models of             *)
(* src/column/models, and the exception of src/column/exceptions.py.       *)
(***************************************************************************)
EXTENDS Integers, Sequences, FiniteSets, TLC

VARIABLES api_key, env, client, async_client, ctor_error,
          pc, op, args, request, response, outcome, sent, calls

vars == <<api_key, env, client, async_client, ctor_error,
          pc, op, args, request, response, outcome, sent, calls>>

clientVars == <<api_key, env, client, async_client>>
callVars == <<pc, op, args, request, response, outcome, sent>>

\* The number of requests one behaviour hands to the transport.
MaxCalls == 2

\* The number of calls one behaviour has in progress together or one after
\* another on one client, in the behaviours that keep every call.
MaxIssued == 2

(***************************************************************************)
(* Python and JSON values, tagged by their type.                           *)
(***************************************************************************)
JStr(s) == [k |-> "str", s |-> s]
JInt(n) == [k |-> "int", n |-> n]
JBool(b) == [k |-> "bool", b |-> b]
JNull == [k |-> "null"]
JObj(r) == [k |-> "dict", d |-> r]
JList(s) == [k |-> "list", l |-> s]
PyDatetime(d) == [k |-> "datetime", dt |-> d]
PyModel(cls, fields) == [k |-> "model", cls |-> cls, f |-> fields]
\* an object that is none of the above: the ColumnClient instance itself
PyObject(cls) == [k |-> "object", cls |-> cls]
\* a keyword argument of a call that was not passed (httpx: json=None, params=None)
Absent == [k |-> "absent"]
EmptyDict == [x \in {} |-> JNull]

\* Python's None
None == JNull

(***************************************************************************)
(* Construction: ColumnClient.__init__ and _parse_env.                     *)
(***************************************************************************)
startswith(key, prefix) ==
    /\ Len(key) >= Len(prefix)
    /\ SubSeq(key, 1, Len(prefix)) = prefix

TEST_PREFIX == <<"t", "e", "s", "t", "_">>
LIVE_PREFIX == <<"l", "i", "v", "e", "_">>

\* API keys as character sequences: prefixes around the two accepted ones,
\* each followed by a tail, and the empty key
KeyPrefixes == { TEST_PREFIX, LIVE_PREFIX, <<"t", "e", "s", "t">>, <<"l", "i", "v", "e">>,
                 <<"T", "E", "S", "T", "_">>, <<"L", "i", "v", "e", "_">>,
                 <<"_", "t", "e", "s", "t", "_">>, <<"p", "r", "o", "d", "_">>, <<>> }
KeyTails == { <<"4", "2">> }
ApiKeys == { p \o t : p \in KeyPrefixes, t \in KeyTails } \cup { <<>> }

\* column/constants.py is not among the sources; the base address is the
\* "fixed base URL" of the specification
COLUMN_API_ADDRESS == "https://api.column.com"

\* the two httpx transport handles, as configured at construction
Client(base_url, auth) == [cls |-> "Client", base_url |-> base_url, auth |-> auth]
\* AsyncClient had it been built with an empty password
AsyncClient_empty_password(base_url, auth) ==
    [cls |-> "AsyncClient", base_url |-> base_url, auth |-> <<auth[1], <<>>>>]

AsyncClient(base_url, auth) == [cls |-> "AsyncClient", base_url |-> base_url, auth |-> auth]

ValueError(msg) == [cls |-> "ValueError", msg |-> msg]

\* [ok, v] on return, [ok, err] on raise
Returns(v) == [ok |-> TRUE, v |-> v]
Raises(e) == [ok |-> FALSE, err |-> e]

\* _parse_env had the prefixes been written without their underscore
_parse_env_bare_prefix(key) ==
    IF startswith(key, <<"t", "e", "s", "t">>) THEN Returns(JStr("test"))
    ELSE IF startswith(key, <<"l", "i", "v", "e">>) THEN Returns(JStr("live"))
    ELSE Raises(ValueError("Invalid API key"))

\* client.py:57-64
_parse_env(key) ==
    IF startswith(key, TEST_PREFIX) THEN Returns(JStr("test"))
    ELSE IF startswith(key, LIVE_PREFIX) THEN Returns(JStr("live"))
    ELSE Raises(ValueError("Invalid API key"))

(***************************************************************************)
(* datetime values and datetime.isoformat().                               *)
(***************************************************************************)
\* tz is "naive" or "utc" (an aware datetime with a zero offset)
DateTime(y, mo, d, h, mi, s, us, tz) ==
    [year |-> y, month |-> mo, day |-> d, hour |-> h, minute |-> mi,
     second |-> s, microsecond |-> us, tz |-> tz]

Pad2(n) == IF n < 10 THEN "0" \o ToString(n) ELSE ToString(n)
Pad4(n) == IF n < 10 THEN "000" \o ToString(n)
           ELSE IF n < 100 THEN "00" \o ToString(n)
           ELSE IF n < 1000 THEN "0" \o ToString(n) ELSE ToString(n)
Pad6(n) == IF n < 100 THEN "00" \o Pad4(n)
           ELSE IF n < 100000 THEN Pad2(n \div 10000) \o Pad4(n % 10000)
           ELSE ToString(n)

isodate(d) == Pad4(d.year) \o "-" \o Pad2(d.month) \o "-" \o Pad2(d.day)
isotime(d) == Pad2(d.hour) \o ":" \o Pad2(d.minute) \o ":" \o Pad2(d.second)
              \o (IF d.microsecond = 0 THEN "" ELSE "." \o Pad6(d.microsecond))

\* datetime.isoformat(): the microseconds only when non-zero, the offset only
\* when the value is aware
isoformat(d) ==
    isodate(d) \o "T" \o isotime(d) \o (IF d.tz = "utc" THEN "+00:00" ELSE "")

\* the datetimes of the model: callers' range bounds and servers' timestamps
T1 == DateTime(2024, 1, 2, 3, 4, 5, 0, "naive")
T2 == DateTime(2024, 12, 31, 23, 59, 59, 0, "naive")
T3 == DateTime(2022, 3, 2, 22, 44, 35, 250, "utc")
T4 == DateTime(2022, 3, 2, 22, 44, 35, 0, "utc")
DateTimes == {T1, T2, T3, T4}

\* time since the epoch, for the timestamps a body may hold as numbers
fromtimestamp(n) ==
    DateTime(1970, 1, 1 + (n \div 86400), (n % 86400) \div 3600, (n % 3600) \div 60,
             n % 60, 0, "utc")

\* the texts pydantic reads as the datetime d: its ISO form, with "Z" for a
\* zero offset as well
Renderings(d) ==
    {isoformat(d)} \cup
    (IF d.tz = "utc" THEN {isodate(d) \o "T" \o isotime(d) \o "Z"} ELSE {})

IsoStrings == UNION {Renderings(d) : d \in DateTimes}
parse_datetime(s) == CHOOSE d \in DateTimes : s \in Renderings(d)

\* the numbers a body may hold as text
SmallInts == {0, 1, 7, 50000}
IntStrings == {ToString(n) : n \in SmallInts}
str_as_int(s) == CHOOSE n \in SmallInts : ToString(n) = s

BOOL_TRUE == {"1", "t", "true", "on", "y", "yes"}
BOOL_FALSE == {"0", "f", "false", "off", "n", "no"}

(***************************************************************************)
(* Field types of the pydantic models and TypedDicts.                      *)
(***************************************************************************)
TStr == [t |-> "str"]
TInt == [t |-> "int"]
TBool == [t |-> "bool"]
TDatetime == [t |-> "datetime"]
TDate == [t |-> "date"]
TOpt(x) == [t |-> "opt", of |-> x]
TList(x) == [t |-> "list", of |-> x]
TDict(x) == [t |-> "dict", of |-> x]
TLit(S) == [t |-> "lit", vals |-> S]
TModel(name) == [t |-> "model", name |-> name]

(***************************************************************************)
(* The pydantic models of src/column/models: field name |-> declared type. *)
(***************************************************************************)
\* models/address.py:6-24
Address ==
    [ city |-> TStr,
      country_code |-> TStr,
      postal_code |-> TStr,
      state |-> TOpt(TStr),
      line_1 |-> TStr,
      line_2 |-> TOpt(TStr) ]

\* models/document.py:7-15
Document ==
    [ checksum |-> TStr,
      created_at |-> TDatetime,
      description |-> TStr,
      id |-> TStr,
      size |-> TInt,
      type |-> TStr,
      updated_at |-> TDatetime,
      url |-> TStr ]

\* models/person_entity.py:9-11
Passport ==
    [ country_code |-> TStr,
      number |-> TStr ]

\* models/person_entity.py:27-35
PersonDetails ==
    [ first_name |-> TStr,
      last_name |-> TStr,
      middle_name |-> TStr,
      ssn |-> TStr,
      date_of_birth |-> TStr,
      email |-> TStr,
      passport |-> TModel("Passport"),
      address |-> TModel("Address") ]

\* models/person_entity.py:38-45
PersonEntity ==
    [ id |-> TStr,
      is_root |-> TBool,
      documents |-> TList(TModel("Document")),
      person_details |-> TModel("PersonDetails"),
      verification_status |-> TStr,
      verification_tags |-> TStr,
      review_reasons |-> TList(TStr) ]

\* models/business_entity.py:9-11
Identification ==
    [ number |-> TStr,
      country_code |-> TStr ]

\* models/business_entity.py:27-41
BeneficialOwner ==
    [ first_name |-> TStr,
      last_name |-> TStr,
      middle_name |-> TOpt(TStr),
      ssn |-> TOpt(TStr),
      passport |-> TOpt(TModel("Identification")),
      drivers_license |-> TOpt(TModel("Identification")),
      national_id |-> TOpt(TModel("Identification")),
      date_of_birth |-> TStr,
      email |-> TOpt(TStr),
      is_control_person |-> TBool,
      is_beneficial_owner |-> TBool,
      ownership_percentage |-> TOpt(TInt),
      job_title |-> TOpt(TStr),
      address |-> TModel("Address") ]

\* models/business_entity.py:81-83
RegistrationID ==
    [ number |-> TStr,
      country_code |-> TStr ]

\* models/business_entity.py:86-100
BusinessDetails ==
    [ address |-> TModel("Address"),
      beneficial_owners |-> TList(TModel("BeneficialOwner")),
      business_name |-> TStr,
      ein |-> TOpt(TStr),
      registration_id |-> TOpt(TModel("RegistrationID")),
      industry |-> TStr,
      website |-> TOpt(TStr),
      legal_type |-> TStr,
      state_of_incorporation |-> TOpt(TStr),
      date_of_incorporation |-> TOpt(TStr),
      account_usage |-> TOpt(TList(TStr)),
      description |-> TOpt(TStr),
      payment_volumes |-> TOpt(TStr),
      countries_of_operation |-> TOpt(TList(TStr)) ]

\* models/business_entity.py:103-111
BusinessEntity ==
    [ id |-> TStr,
      is_root |-> TBool,
      documents |-> TList(TModel("Document")),
      business_details |-> TModel("BusinessDetails"),
      review_reasons |-> TList(TStr),
      type |-> TStr,
      verification_status |-> TList(TStr),
      verification_tags |-> TStr ]

\* models/bank_account.py:10-16
Balances ==
    [ available_amount |-> TInt,
      holding_amount |-> TInt,
      locked_amount |-> TInt,
      pending_amount |-> TInt ]

\* models/bank_account.py:19-36
BankAccount ==
    [ balances |-> TModel("Balances"),
      bic |-> TStr,
      created_at |-> TDatetime,
      currency_code |-> TStr,
      default_account_number |-> TStr,
      default_account_number_id |-> TStr,
      description |-> TStr,
      id |-> TStr,
      is_overdraftable |-> TBool,
      overdraft_reserve_account_id |-> TOpt(TStr),
      owners |-> TList(TStr),
      routing_number |-> TStr,
      type |-> TStr ]

\* models/bank_account.py:39-41
BankAccountList ==
    [ has_more |-> TBool,
      bank_accounts |-> TList(TModel("BankAccount")) ]

\* models/bank_account.py:98-160
BankAccountSummary ==
    [ available_balance_credit |-> TStr,
      available_balance_debit |-> TStr,
      available_balance_close |-> TStr,
      currency |-> TStr,
      effective_on |-> TDate,
      holding_balance_credit |-> TStr,
      holding_balance_debit |-> TStr,
      holding_balance_close |-> TStr,
      locked_balance_credit |-> TStr,
      locked_balance_debit |-> TStr,
      locked_balance_close |-> TStr,
      pending_balance_credit |-> TStr,
      pending_balance_debit |-> TStr,
      pending_balance_close |-> TStr,
      time_zone |-> TStr,
      transaction_count |-> TInt ]

\* models/bank_account.py:163-169
BankAccountSummaryHistory ==
    [ id |-> TStr,
      history |-> TList(TModel("BankAccountSummary")) ]

\* models/account_number.py:7-13
AccountNumber ==
    [ id |-> TStr,
      bank_account_id |-> TStr,
      bic |-> TStr,
      created_at |-> TDatetime,
      description |-> TStr,
      routing_number |-> TStr ]

\* models/account_number.py:20-22
AccountNumberList ==
    [ has_more |-> TBool,
      account_numbers |-> TList(TModel("AccountNumber")) ]

\* models/counterparty.py:10-32
Wire ==
    [ beneficiary_address |-> TModel("Address"),
      beneficiary_email |-> TStr,
      beneficiary_legal_id |-> TStr,
      beneficiary_name |-> TStr,
      beneficiary_phone |-> TStr,
      beneficiary_type |-> TStr,
      local_account_number |-> TStr,
      local_bank_code |-> TStr ]

\* models/counterparty.py:35-83
Counterparty ==
    [ account_number |-> TStr,
      account_type |-> TStr,
      address |-> TModel("Address"),
      created_at |-> TDatetime,
      description |-> TStr,
      email |-> TStr,
      id |-> TStr,
      is_column_account |-> TBool,
      legal_id |-> TStr,
      legal_type |-> TStr,
      local_account_number |-> TStr,
      local_bank_code |-> TStr,
      local_bank_country_code |-> TStr,
      local_bank_name |-> TStr,
      name |-> TStr,
      phone |-> TStr,
      routing_number |-> TStr,
      routing_number_type |-> TStr,
      updated_at |-> TDatetime,
      wire |-> TModel("Wire"),
      wire_drawdown_allowed |-> TBool ]

\* models/counterparty.py:86-95
CounterpartyList ==
    [ counterparties |-> TList(TModel("Counterparty")),
      has_more |-> TBool ]

\* models/counterparty.py:152-171
FinancialInstitution ==
    [ ach_eligible |-> TBool,
      city |-> TStr,
      country_code |-> TStr,
      created_at |-> TStr,
      full_name |-> TStr,
      phone_number |-> TStr,
      routing_number |-> TStr,
      routing_number_type |-> TLit({"aba", "bic"}),
      short_name |-> TStr,
      state |-> TStr,
      street_address |-> TStr,
      updated_at |-> TStr,
      wire_eligible |-> TBool,
      wire_settlement_only |-> TBool,
      zip_code |-> TStr ]

\* models/counterparty.py:174-180
FinancialInstitutionList ==
    [ financial_institutions |-> TList(TModel("FinancialInstitution")),
      has_more |-> TBool ]

\* models/counterparty.py:196-209
IBANValidationObject ==
    [ account_number |-> TStr,
      bank_id |-> TStr,
      bic |-> TStr,
      branch_id |-> TStr,
      check_digits |-> TStr,
      country_code |-> TStr,
      iban |-> TStr,
      institution_name |-> TStr,
      national_id |-> TStr ]

\* models/transfer.py:67-75
TransferDetails ==
    [ sender_name |-> TOpt(TStr),
      merchant_name |-> TOpt(TStr),
      merchant_category_code |-> TOpt(TStr),
      authorization_method |-> TOpt(TStr),
      website |-> TOpt(TStr),
      internal_transfer_type |-> TOpt(TStr),
      statement_description |-> TOpt(TStr),
      address |-> TModel("Address") ]

\* models/transfer.py:78-110
BookTransfer ==
    [ allow_overdraft |-> TBool,
      amount |-> TInt,
      created_at |-> TDatetime,
      currency_code |-> TStr,
      description |-> TStr,
      id |-> TStr,
      idempotency_key |-> TStr,
      receiver_account_number_id |-> TStr,
      receiver_bank_account_id |-> TStr,
      sender_account_number_id |-> TStr,
      sender_bank_account_id |-> TStr,
      status |-> TLit({"REJECTED", "COMPLETED", "HOLD", "CANCELED"}),
      updated_at |-> TDatetime,
      details |-> TModel("TransferDetails") ]

\* models/transfer.py:113-119
BookTransferList ==
    [ data |-> TList(TModel("BookTransfer")),
      has_more |-> TBool ]


(***************************************************************************)
(* exceptions.py: the error-response shape and ColumnClientException.      *)
(***************************************************************************)
\* exceptions.py:6-16
ColumnErrorResponseType ==
    { "authentication_error", "bank_account_error", "dashboard_error", "entity_error",
      "limit_error", "loan_error", "request_validation_error", "server_error",
      "transfer_error" }

\* exceptions.py:19-24
ColumnErrorResponse ==
    [ type |-> TLit(ColumnErrorResponseType),
      code |-> TStr,
      message |-> TStr,
      documentation_url |-> TStr,
      details |-> TDict(TStr) ]

\* the pydantic class a name stands for
Schema(name) ==
    CASE name = "Address" -> Address
      [] name = "Document" -> Document
      [] name = "Passport" -> Passport
      [] name = "PersonDetails" -> PersonDetails
      [] name = "PersonEntity" -> PersonEntity
      [] name = "Identification" -> Identification
      [] name = "BeneficialOwner" -> BeneficialOwner
      [] name = "RegistrationID" -> RegistrationID
      [] name = "BusinessDetails" -> BusinessDetails
      [] name = "BusinessEntity" -> BusinessEntity
      [] name = "Balances" -> Balances
      [] name = "BankAccount" -> BankAccount
      [] name = "BankAccountList" -> BankAccountList
      [] name = "BankAccountSummary" -> BankAccountSummary
      [] name = "BankAccountSummaryHistory" -> BankAccountSummaryHistory
      [] name = "AccountNumber" -> AccountNumber
      [] name = "AccountNumberList" -> AccountNumberList
      [] name = "Wire" -> Wire
      [] name = "Counterparty" -> Counterparty
      [] name = "CounterpartyList" -> CounterpartyList
      [] name = "FinancialInstitution" -> FinancialInstitution
      [] name = "FinancialInstitutionList" -> FinancialInstitutionList
      [] name = "IBANValidationObject" -> IBANValidationObject
      [] name = "TransferDetails" -> TransferDetails
      [] name = "BookTransfer" -> BookTransfer
      [] name = "BookTransferList" -> BookTransferList
      [] name = "ColumnErrorResponse" -> ColumnErrorResponse

(***************************************************************************)
(* pydantic (v2, lax mode) validation of a parsed JSON value against a     *)
(* field type: BaseModel.model_validate.                                   *)
(***************************************************************************)
Valid(v) == [ok |-> TRUE, v |-> v]
Invalid == [ok |-> FALSE]

RECURSIVE Validate(_, _)
\* ValidateModel had every field a default of None: a field the body lacks
\* is filled in instead of refused
ValidateModel_defaults(name, x) ==
    IF x.k /= "dict" THEN Invalid
    ELSE LET S == Schema(name)
             r == [f \in DOMAIN S |->
                     IF f \in DOMAIN x.d THEN Validate(S[f], x.d[f]) ELSE Valid(None)]
         IN IF \A f \in DOMAIN S : r[f].ok
            THEN Valid(PyModel(name, [f \in DOMAIN S |-> r[f].v]))
            ELSE Invalid

\* a model: every declared field is required (none has a default), fields
\* the model does not declare are ignored
ValidateModel(name, x) ==
    IF x.k /= "dict" THEN Invalid
    ELSE LET S == Schema(name)
             r == [f \in DOMAIN S |->
                     IF f \in DOMAIN x.d THEN Validate(S[f], x.d[f]) ELSE Invalid]
         IN IF \A f \in DOMAIN S : r[f].ok
            THEN Valid(PyModel(name, [f \in DOMAIN S |-> r[f].v]))
            ELSE Invalid

ValidateSeq(t, x) ==
    IF x.k /= "list" THEN Invalid
    ELSE LET r == [i \in DOMAIN x.l |-> Validate(t, x.l[i])]
         IN IF \A i \in DOMAIN x.l : r[i].ok
            THEN Valid(JList([i \in DOMAIN x.l |-> r[i].v]))
            ELSE Invalid

ValidateDict(t, x) ==
    IF x.k /= "dict" THEN Invalid
    ELSE LET r == [f \in DOMAIN x.d |-> Validate(t, x.d[f])]
         IN IF \A f \in DOMAIN x.d : r[f].ok
            THEN Valid(JObj([f \in DOMAIN x.d |-> r[f].v]))
            ELSE Invalid

ValidateInt(x) ==
    CASE x.k = "int" -> Valid(x)
      [] x.k = "bool" -> Valid(JInt(IF x.b THEN 1 ELSE 0))
      [] x.k = "str" -> IF x.s \in IntStrings THEN Valid(JInt(str_as_int(x.s))) ELSE Invalid
      [] OTHER -> Invalid

ValidateBool(x) ==
    CASE x.k = "bool" -> Valid(x)
      [] x.k = "int" -> IF x.n \in {0, 1} THEN Valid(JBool(x.n = 1)) ELSE Invalid
      [] x.k = "str" -> IF x.s \in BOOL_TRUE THEN Valid(JBool(TRUE))
                        ELSE IF x.s \in BOOL_FALSE THEN Valid(JBool(FALSE))
                        ELSE Invalid
      [] OTHER -> Invalid

ValidateDatetime(x) ==
    CASE x.k = "str" -> IF x.s \in IsoStrings THEN Valid(PyDatetime(parse_datetime(x.s)))
                        ELSE IF x.s \in IntStrings
                             THEN Valid(PyDatetime(fromtimestamp(str_as_int(x.s))))
                             ELSE Invalid
      [] x.k = "int" -> Valid(PyDatetime(fromtimestamp(x.n)))
      [] OTHER -> Invalid

ValidateDate(x) ==
    CASE x.k = "str" -> IF \E d \in DateTimes : x.s = isodate(d)
                        THEN Valid([k |-> "date", s |-> x.s])
                        ELSE Invalid
      [] x.k = "int" -> IF x.n % 86400 = 0
                        THEN Valid([k |-> "date", s |-> isodate(fromtimestamp(x.n))])
                        ELSE Invalid
      [] OTHER -> Invalid

\* Validate had a Literal field been declared str
Validate_literal_as_str(t, x) ==
    CASE t.t = "str" -> IF x.k = "str" THEN Valid(x) ELSE Invalid
      [] t.t = "int" -> ValidateInt(x)
      [] t.t = "bool" -> ValidateBool(x)
      [] t.t = "datetime" -> ValidateDatetime(x)
      [] t.t = "date" -> ValidateDate(x)
      [] t.t = "opt" -> IF x.k = "null" THEN Valid(x) ELSE Validate(t.of, x)
      [] t.t = "list" -> ValidateSeq(t.of, x)
      [] t.t = "dict" -> ValidateDict(t.of, x)
      [] t.t = "lit" -> IF x.k = "str" THEN Valid(x) ELSE Invalid
      [] t.t = "model" -> ValidateModel(t.name, x)

Validate(t, x) ==
    CASE t.t = "str" -> IF x.k = "str" THEN Valid(x) ELSE Invalid
      [] t.t = "int" -> ValidateInt(x)
      [] t.t = "bool" -> ValidateBool(x)
      [] t.t = "datetime" -> ValidateDatetime(x)
      [] t.t = "date" -> ValidateDate(x)
      [] t.t = "opt" -> IF x.k = "null" THEN Valid(x) ELSE Validate(t.of, x)
      [] t.t = "list" -> ValidateSeq(t.of, x)
      [] t.t = "dict" -> ValidateDict(t.of, x)
      [] t.t = "lit" -> IF x.k = "str" /\ x.s \in t.vals THEN Valid(x) ELSE Invalid
      [] t.t = "model" -> ValidateModel(t.name, x)

ValidationError(title) == [cls |-> "ValidationError", title |-> title]

model_validate(name, data) ==
    LET r == Validate(TModel(name), data)
    IN IF r.ok THEN Returns(r.v) ELSE Raises(ValidationError(name))

(***************************************************************************)
(* Responses and the shared handlers of client.py.                         *)
(***************************************************************************)
\* a body that is no JSON document (empty, HTML, truncated)
NotJson == [k |-> "notjson"]

Response(status_code, body, url) ==
    [status_code |-> status_code, body |-> body, url |-> url]

JSONDecodeError == [cls |-> "JSONDecodeError"]
KeyError(key) == [cls |-> "KeyError", key |-> key]
TypeError(what) == [cls |-> "TypeError", msg |-> what]
ValueErrorOf(msg, arg) == [cls |-> "ValueError", msg |-> msg, arg |-> arg]

\* httpx Response.json()
json(resp) ==
    IF resp.body.k = "notjson" THEN Raises(JSONDecodeError) ELSE Returns(resp.body)

\* ColumnClientException had the text named the code before the type
ColumnClientException_code_first(response_body, resp) ==
    [ cls |-> "ColumnClientException",
      type |-> response_body.f.type,
      code |-> response_body.f.code,
      documentation_url |-> response_body.f.documentation_url,
      details |-> response_body.f.details,
      status_code |-> JInt(resp.status_code),
      url |-> resp.url,
      args |-> << "Error calling ", resp.url, ", ", response_body.f.code, ": ",
                  response_body.f.type, " - ", response_body.f.details,
                  ", Server returned status: ", JInt(resp.status_code) >> ]

\* exceptions.py:35-44: the attributes __init__ sets, and the text handed to
\* Exception.__init__ as the sequence of its literal and formatted parts
ColumnClientException(response_body, resp) ==
    [ cls |-> "ColumnClientException",
      type |-> response_body.f.type,
      code |-> response_body.f.code,
      documentation_url |-> response_body.f.documentation_url,
      details |-> response_body.f.details,
      status_code |-> JInt(resp.status_code),
      url |-> resp.url,
      args |-> << "Error calling ", resp.url, ", ", response_body.f.type, ": ",
                  response_body.f.code, " - ", response_body.f.details,
                  ", Server returned status: ", JInt(resp.status_code) >> ]

\* _handle_response had it wrapped a malformed error body in the API error
_handle_response_wrapping(resp) ==
    LET data == json(resp) IN
    IF ~data.ok THEN data
    ELSE IF resp.status_code = 200 THEN Returns(data.v)
    ELSE IF resp.status_code \in {400, 401, 403, 404, 429} \/ resp.status_code >= 500
         THEN LET error_body == model_validate("ColumnErrorResponse", data.v)
              IN IF ~error_body.ok
                 THEN Raises([cls |-> "ColumnClientException",
                              status_code |-> JInt(resp.status_code), url |-> resp.url])
                 ELSE Raises(ColumnClientException(error_body.v, resp))
    ELSE Raises(ValueErrorOf("Unhandled status code: ", JInt(resp.status_code)))

\* _handle_response had it looked at the status before parsing the body
_handle_response_status_first(resp) ==
    IF resp.status_code = 200 THEN json(resp)
    ELSE IF resp.status_code \in {400, 401, 403, 404, 429} \/ resp.status_code >= 500
         THEN LET data == json(resp) IN
              IF ~data.ok THEN data
              ELSE LET error_body == model_validate("ColumnErrorResponse", data.v)
                   IN IF ~error_body.ok THEN error_body
                      ELSE Raises(ColumnClientException(error_body.v, resp))
    ELSE Raises(ValueErrorOf("Unhandled status code: ", JInt(resp.status_code)))

\* _handle_response had 429 been left out of the error statuses
_handle_response_without_429(resp) ==
    LET data == json(resp) IN
    IF ~data.ok THEN data
    ELSE IF resp.status_code = 200 THEN Returns(data.v)
    ELSE IF resp.status_code \in {400, 401, 403, 404} \/ resp.status_code >= 500
         THEN LET error_body == model_validate("ColumnErrorResponse", data.v)
              IN IF ~error_body.ok THEN error_body
                 ELSE Raises(ColumnClientException(error_body.v, resp))
    ELSE Raises(ValueErrorOf("Unhandled status code: ", JInt(resp.status_code)))

\* _handle_response had every 2xx status been taken for success
_handle_response_any_2xx(resp) ==
    LET data == json(resp) IN
    IF ~data.ok THEN data
    ELSE IF resp.status_code \in 200..299 THEN Returns(data.v)
    ELSE IF resp.status_code \in {400, 401, 403, 404, 429} \/ resp.status_code >= 500
         THEN LET error_body == model_validate("ColumnErrorResponse", data.v)
              IN IF ~error_body.ok THEN error_body
                 ELSE Raises(ColumnClientException(error_body.v, resp))
    ELSE Raises(ValueErrorOf("Unhandled status code: ", JInt(resp.status_code)))

\* client.py:66-74
_handle_response(resp) ==
    LET data == json(resp) IN
    IF ~data.ok THEN data
    ELSE IF resp.status_code = 200 THEN Returns(data.v)
    ELSE IF resp.status_code \in {400, 401, 403, 404, 429} \/ resp.status_code >= 500
         THEN LET error_body == model_validate("ColumnErrorResponse", data.v)
              IN IF ~error_body.ok THEN error_body
                 ELSE Raises(ColumnClientException(error_body.v, resp))
    ELSE Raises(ValueErrorOf("Unhandled status code: ", JInt(resp.status_code)))

\* data[key] on a parsed body
getitem(data, key) ==
    IF data.k = "dict"
    THEN IF key \in DOMAIN data.d THEN Returns(data.d[key]) ELSE Raises(KeyError(key))
    ELSE Raises(TypeError("subscript"))

\* _get_entity with the two kinds swapped
_get_entity_swapped(resp) ==
    LET data == _handle_response(resp) IN
    IF ~data.ok THEN data
    ELSE LET type == getitem(data.v, "type") IN
         IF ~type.ok THEN type
         ELSE IF type.v = JStr("BUSINESS") THEN model_validate("PersonEntity", data.v)
         ELSE IF type.v = JStr("PERSON") THEN model_validate("BusinessEntity", data.v)
         ELSE Raises(ValueErrorOf("Unhandled entity type: ", type.v))

\* _get_entity had it read the discriminator from the parsed body before
\* handing the response to _handle_response
_get_entity_type_first(resp) ==
    LET parsed == json(resp) IN
    IF ~parsed.ok THEN parsed
    ELSE LET type == getitem(parsed.v, "type") IN
         IF ~type.ok THEN type
         ELSE IF type.v \notin {JStr("BUSINESS"), JStr("PERSON")}
              THEN Raises(ValueErrorOf("Unhandled entity type: ", type.v))
         ELSE LET data == _handle_response(resp) IN
              IF ~data.ok THEN data
              ELSE IF type.v = JStr("BUSINESS") THEN model_validate("BusinessEntity", data.v)
              ELSE model_validate("PersonEntity", data.v)

\* client.py:76-82
_get_entity(resp) ==
    LET data == _handle_response(resp) IN
    IF ~data.ok THEN data
    ELSE LET type == getitem(data.v, "type") IN
         IF ~type.ok THEN type
         ELSE IF type.v = JStr("BUSINESS") THEN model_validate("BusinessEntity", data.v)
         ELSE IF type.v = JStr("PERSON") THEN model_validate("PersonEntity", data.v)
         ELSE Raises(ValueErrorOf("Unhandled entity type: ", type.v))

\* _parse_response had it caught every exception and returned None
_parse_response_swallowing(resp, model) ==
    LET data == _handle_response(resp) IN
    IF ~data.ok THEN Returns(None)
    ELSE LET value == model_validate(model, data.v)
         IN IF value.ok THEN value ELSE Returns(None)

\* client.py:92-94
_parse_response(resp, model) ==
    LET data == _handle_response(resp) IN
    IF ~data.ok THEN data ELSE model_validate(model, data.v)

\* the methods that end in a bare self._handle_response(response) return None
_discard_response(resp) ==
    LET data == _handle_response(resp) IN
    IF ~data.ok THEN data ELSE Returns(None)

(***************************************************************************)
(* The public methods of ColumnClient.                                     *)
(***************************************************************************)
R(handle, method, prefix, idarg, suffix, payload, tail, model, typed) ==
    [handle |-> handle, method |-> method, prefix |-> prefix, idarg |-> idarg,
     suffix |-> suffix, payload |-> payload, tail |-> tail, model |-> model,
     typed |-> typed]

\* client.py:84-509: for each public method the transport handle it calls, the HTTP
\* method, the path (prefix, the argument interpolated, suffix), the keyword that
\* carries its payload, the handler that ends it and the model it decodes to,
\* and the TypedDict of its **kwargs
Route(o) ==
    CASE o = "get_entity" ->
        R("_client", "GET", "/entities/", "entity_id", "", "none", "_get_entity", "", "")
      [] o = "aget_entity" ->
        R("_async_client", "GET", "/entities/", "entity_id", "", "none", "_get_entity", "", "")
      [] o = "create_person" ->
        R("_client", "POST", "/entities/person", "", "", "json", "_parse_response", "PersonEntity", "PersonEntityDict")
      [] o = "acreate_person" ->
        R("_async_client", "POST", "/entities/person", "", "", "json", "_parse_response", "PersonEntity", "PersonEntityDict")
      [] o = "update_person" ->
        R("_client", "PUT", "/entities/person/", "entity_id", "", "json", "_parse_response", "PersonEntity", "PersonEntityDict")
      [] o = "aupdate_person" ->
        R("_async_client", "PUT", "/entities/person/", "entity_id", "", "json", "_parse_response", "PersonEntity", "PersonEntityDict")
      [] o = "create_business" ->
        R("_client", "POST", "/entities/business", "", "", "json", "_parse_response", "BusinessEntity", "BusinessEntityDict")
      [] o = "acreate_business" ->
        R("_async_client", "POST", "/entities/business", "", "", "json", "_parse_response", "BusinessEntity", "BusinessEntityDict")
      [] o = "update_business" ->
        R("_client", "PUT", "/entities/business/", "entity_id", "", "json", "_parse_response", "BusinessEntity", "BusinessEntityDict")
      [] o = "aupdate_business" ->
        R("_async_client", "PUT", "/entities/business/", "entity_id", "", "json", "_parse_response", "BusinessEntity", "BusinessEntityDict")
      [] o = "delete_entity" ->
        R("_client", "DELETE", "/entities/", "entity_id", "", "none", "_handle_response", "", "")
      [] o = "adelete_entity" ->
        R("_async_client", "DELETE", "/entities/", "entity_id", "", "none", "_handle_response", "", "")
      [] o = "submit_document" ->
        R("_client", "POST", "/entities/", "entity_id", "/documents", "json", "_get_entity", "", "DocumentSubmitDict")
      [] o = "asubmit_document" ->
        R("_async_client", "POST", "/entities/", "entity_id", "/documents", "json", "_get_entity", "", "DocumentSubmitDict")
      [] o = "create_bank_account" ->
        R("_client", "POST", "/entities/bank-account", "", "", "json", "_parse_response", "BankAccount", "BankAccountCreateDict")
      [] o = "acreate_bank_account" ->
        R("_async_client", "POST", "/entities/bank-account", "", "", "json", "_parse_response", "BankAccount", "BankAccountCreateDict")
      [] o = "list_bank_accounts" ->
        R("_client", "GET", "/entities/", "entity_id", "/bank-accounts", "params", "_parse_response", "BankAccountList", "BankAccountListParams")
      [] o = "alist_bank_accounts" ->
        R("_async_client", "GET", "/entities/", "entity_id", "/bank-accounts", "params", "_parse_response", "BankAccountList", "BankAccountListParams")
      [] o = "get_bank_account" ->
        R("_client", "GET", "/entities/bank-account/", "bank_account_id", "", "none", "_parse_response", "BankAccount", "")
      [] o = "aget_bank_account" ->
        R("_async_client", "GET", "/entities/bank-account/", "bank_account_id", "", "none", "_parse_response", "BankAccount", "")
      [] o = "update_bank_account" ->
        R("_client", "PUT", "/entities/bank-account/", "bank_account_id", "", "json", "_parse_response", "BankAccount", "BankAccountUpdateDict")
      [] o = "aupdate_bank_account" ->
        R("_async_client", "PUT", "/entities/bank-account/", "bank_account_id", "", "json", "_parse_response", "BankAccount", "BankAccountUpdateDict")
      [] o = "delete_bank_account" ->
        R("_client", "DELETE", "/entities/bank-account/", "bank_account_id", "", "none", "_handle_response", "", "")
      [] o = "adelete_bank_account" ->
        R("_async_client", "DELETE", "/entities/bank-account/", "bank_account_id", "", "none", "_handle_response", "", "")
      [] o = "get_bank_account_summary_history" ->
        R("_client", "GET", "/entities/bank-account/", "bank_account_id", "/summary-history", "none", "_parse_response", "BankAccountSummaryHistory", "")
      [] o = "aget_bank_account_summary_history" ->
        R("_async_client", "GET", "/entities/bank-account/", "bank_account_id", "/summary-history", "none", "_parse_response", "BankAccountSummaryHistory", "")
      [] o = "create_account_number" ->
        R("_client", "POST", "/bank-accounts/", "bank_account_id", "/account-number", "json", "_parse_response", "AccountNumber", "AccountNumberCreateDict")
      [] o = "acreate_account_number" ->
        R("_async_client", "POST", "/bank-accounts/", "bank_account_id", "/account-number", "json", "_parse_response", "AccountNumber", "AccountNumberCreateDict")
      [] o = "list_account_numbers" ->
        R("_client", "GET", "/bank-accounts/", "bank_account_id", "/account-numbers", "params", "_parse_response", "AccountNumberList", "")
      [] o = "alist_account_numbers" ->
        R("_async_client", "GET", "/bank-accounts/", "bank_account_id", "/account-numbers", "params", "_parse_response", "AccountNumberList", "")
      [] o = "get_account_number" ->
        R("_client", "GET", "/account-numbers/", "account_number_id", "", "none", "_parse_response", "AccountNumber", "")
      [] o = "aget_account_number" ->
        R("_async_client", "GET", "/account-numbers/", "account_number_id", "", "none", "_parse_response", "AccountNumber", "")
      [] o = "get_counterparty" ->
        R("_client", "GET", "/counterparties/", "counterparty_id", "", "none", "_parse_response", "Counterparty", "")
      [] o = "aget_counterparty" ->
        R("_async_client", "GET", "/counterparties/", "counterparty_id", "", "none", "_parse_response", "Counterparty", "")
      [] o = "list_counterparties" ->
        R("_client", "GET", "/counterparties", "", "", "params", "_parse_response", "CounterpartyList", "CounterpartyListParams")
      [] o = "alist_counterparties" ->
        R("_async_client", "GET", "/counterparties", "", "", "params", "_parse_response", "CounterpartyList", "CounterpartyListParams")
      [] o = "create_counterparty" ->
        R("_client", "POST", "/counterparties", "", "", "json", "_parse_response", "Counterparty", "CounterpartyCreateDict")
      [] o = "acreate_counterparty" ->
        R("_async_client", "POST", "/counterparties", "", "", "json", "_parse_response", "Counterparty", "CounterpartyCreateDict")
      [] o = "delete_counterparty" ->
        R("_client", "DELETE", "/counterparties/", "counterparty_id", "", "none", "_handle_response", "", "")
      [] o = "adelete_counterparty" ->
        R("_async_client", "DELETE", "/counterparties/", "counterparty_id", "", "none", "_handle_response", "", "")
      [] o = "get_financial_institution" ->
        R("_client", "GET", "/institutions/", "routing_number", "", "none", "_parse_response", "FinancialInstitution", "")
      [] o = "aget_financial_institution" ->
        R("_async_client", "GET", "/institutions/", "routing_number", "", "none", "_parse_response", "FinancialInstitution", "")
      [] o = "list_financial_institutions" ->
        R("_client", "GET", "/institutions", "", "", "params", "_parse_response", "FinancialInstitutionList", "FinancialInstitutionListParams")
      [] o = "alist_financial_institutions" ->
        R("_async_client", "GET", "/institutions", "", "", "params", "_parse_response", "FinancialInstitutionList", "FinancialInstitutionListParams")
      [] o = "validate_iban" ->
        R("_client", "GET", "/iban/", "iban", "", "none", "_parse_response", "IBANValidationObject", "")
      [] o = "avalidate_iban" ->
        R("_async_client", "GET", "/iban/", "iban", "", "none", "_parse_response", "IBANValidationObject", "")
      [] o = "create_book_transfer" ->
        R("_client", "POST", "/transfers/book", "", "", "json", "_parse_response", "BookTransfer", "")
      [] o = "acreate_book_transfer" ->
        R("_async_client", "POST", "/transfers/book", "", "", "json", "_parse_response", "BookTransfer", "")
      [] o = "list_book_transfers" ->
        R("_client", "GET", "/transfers/book", "", "", "params", "_parse_response", "BookTransferList", "")
      [] o = "alist_book_transfers" ->
        R("_async_client", "GET", "/transfers/book", "", "", "params", "_parse_response", "BookTransferList", "")
      [] o = "get_book_transfer" ->
        R("_client", "GET", "/transfers/book/", "book_transfer_id", "", "none", "_parse_response", "BookTransfer", "")
      [] o = "aget_book_transfer" ->
        R("_async_client", "GET", "/transfers/book/", "book_transfer_id", "", "none", "_parse_response", "BookTransfer", "")
      [] o = "cancel_book_transfer" ->
        R("_client", "POST", "/transfers/book/", "book_transfer_id", "/cancel", "none", "_handle_response", "", "")
      [] o = "acancel_book_transfer" ->
        R("_async_client", "POST", "/transfers/book/", "book_transfer_id", "/cancel", "none", "_handle_response", "", "")
      [] o = "clear_book_transfer" ->
        R("_client", "POST", "/transfers/book/", "book_transfer_id", "/clear", "none", "_handle_response", "", "")
      [] o = "aclear_book_transfer" ->
        R("_async_client", "POST", "/transfers/book/", "book_transfer_id", "/clear", "none", "_handle_response", "", "")

Ops ==
    { "get_entity", "aget_entity", "create_person", "acreate_person",
      "update_person", "aupdate_person", "create_business", "acreate_business",
      "update_business", "aupdate_business", "delete_entity", "adelete_entity",
      "submit_document", "asubmit_document", "create_bank_account", "acreate_bank_account",
      "list_bank_accounts", "alist_bank_accounts", "get_bank_account", "aget_bank_account",
      "update_bank_account", "aupdate_bank_account", "delete_bank_account", "adelete_bank_account",
      "get_bank_account_summary_history", "aget_bank_account_summary_history", "create_account_number", "acreate_account_number",
      "list_account_numbers", "alist_account_numbers", "get_account_number", "aget_account_number",
      "get_counterparty", "aget_counterparty", "list_counterparties", "alist_counterparties",
      "create_counterparty", "acreate_counterparty", "delete_counterparty", "adelete_counterparty",
      "get_financial_institution", "aget_financial_institution", "list_financial_institutions", "alist_financial_institutions",
      "validate_iban", "avalidate_iban", "create_book_transfer", "acreate_book_transfer",
      "list_book_transfers", "alist_book_transfers", "get_book_transfer", "aget_book_transfer",
      "cancel_book_transfer", "acancel_book_transfer", "clear_book_transfer", "aclear_book_transfer" }

(***************************************************************************)
(* Request construction.  The arguments of a call are a function from      *)
(* parameter names to Python values; **kwargs is the dict under "kwargs".  *)
(***************************************************************************)
\* bool(v)
Truthy(v) ==
    CASE v.k = "null" -> FALSE
      [] v.k = "bool" -> v.b
      [] v.k = "int" -> v.n /= 0
      [] v.k = "str" -> v.s /= ""
      [] v.k = "dict" -> DOMAIN v.d /= {}
      [] v.k = "list" -> Len(v.l) > 0
      [] OTHER -> TRUE

\* isinstance(v, (int, str, bool))
IsPrimitive(v) == v.k \in {"int", "str", "bool"}

\* d.get(key) and d.get(key, None)
get(d, key) == IF key \in DOMAIN d THEN d[key] ELSE None

\* scalar_items had the comprehension been filtered by "if v"
scalar_items_truthy(kwargs) ==
    [k \in {k \in DOMAIN kwargs : Truthy(kwargs[k])} |-> kwargs[k]]

\* {k: v for k, v in kwargs.items() if isinstance(v, (int, str, bool))}
scalar_items(kwargs) ==
    [k \in {k \in DOMAIN kwargs : IsPrimitive(kwargs[k])} |-> kwargs[k]]

\* the keys the loop over ["gt", "lt", "gte", "lte"] visits
CREATED_KEYS == {"gt", "lt", "gte", "lte"}

\* created_items had the loop been written over ["gt", "lt", "gte"]
created_items_without_lte(kwargs) ==
    LET created == get(kwargs, "created") IN
    IF ~Truthy(created) THEN EmptyDict
    ELSE LET set == {key \in {"gt", "lt", "gte"} : Truthy(get(created.d, key))}
             dotted == {"created." \o key : key \in set}
         IN [p \in dotted |->
               LET key == CHOOSE key \in set : p = "created." \o key
               IN JStr(isoformat(created.d[key].dt))]

\* created = kwargs.get("created", None); if created: for key in [...]:
\*     if date_value := created.get(key): base_params[f"created.{key}"] = ...
created_items(kwargs) ==
    LET created == get(kwargs, "created") IN
    IF ~Truthy(created) THEN EmptyDict
    ELSE LET set == {key \in CREATED_KEYS : Truthy(get(created.d, key))}
             dotted == {"created." \o key : key \in set}
         IN [p \in dotted |->
               LET key == CHOOSE key \in set : p = "created." \o key
               IN JStr(isoformat(created.d[key].dt))]

\* client.py:165-170
list_bank_accounts(a) == created_items(a.kwargs.d) @@ scalar_items(a.kwargs.d)
\* alist_bank_accounts had it left out the loop over the created range
alist_bank_accounts_without_created(a) == scalar_items(a.kwargs.d)

\* client.py:178-183
alist_bank_accounts(a) == created_items(a.kwargs.d) @@ scalar_items(a.kwargs.d)
\* client.py:304-309
list_counterparties(a) == created_items(a.kwargs.d) @@ scalar_items(a.kwargs.d)
\* client.py:316-321
alist_counterparties(a) == created_items(a.kwargs.d) @@ scalar_items(a.kwargs.d)
\* client.py:352
list_financial_institutions(a) == scalar_items(a.kwargs.d)
\* client.py:359
alist_financial_institutions(a) == scalar_items(a.kwargs.d)

\* not_none_items had the tests been written "if x:"
not_none_items_truthy(a, names) ==
    [k \in {k \in names : Truthy(a[k])} |-> a[k]]

\* params = {}; if x is not None: params["x"] = x, for the three names
not_none_items(a, names) ==
    [k \in {k \in names : a[k] /= None} |-> a[k]]

\* client.py:254-260
list_account_numbers(a) ==
    not_none_items(a, {"limit", "starting_after", "ending_before"})
\* client.py:274-280
alist_account_numbers(a) ==
    not_none_items(a, {"limit", "starting_after", "ending_before"})

\* models/transfer.py:122-134: the fields of CreateBookTransferBody
CreateBookTransferBody ==
    { "amount", "currency_code", "description", "sender_bank_account_id",
      "sender_account_number_id", "receiver_bank_account_id",
      "receiver_account_number_id", "allow_overdraft", "hold", "details" }

\* BaseModel.model_dump(exclude_none=True): the fields whose value is None are
\* left out, in nested dicts too
RECURSIVE exclude_none(_)
exclude_none(d) ==
    [k \in {k \in DOMAIN d : d[k] /= None} |->
        IF d[k].k = "dict" THEN JObj(exclude_none(d[k].d)) ELSE d[k]]

\* model_dump() without exclude_none=True: every field, the None ones too
model_dump_with_none(d) == d

model_dump(d) == exclude_none(d)

\* client.py:384-396
create_book_transfer(a) ==
    LET body == [f \in CreateBookTransferBody |-> a[f]] IN model_dump(body)
\* client.py:412-426
acreate_book_transfer(a) ==
    LET body == [f \in CreateBookTransferBody |-> a[f]] IN model_dump(body)

\* the parameters of list_book_transfers, and locals() at its first statement:
\* self and the parameters
BOOK_LIST_PARAMETERS ==
    { "limit", "starting_after", "ending_before", "created_gt", "created_lt",
      "created_gte", "created_lte", "sender_bank_account_id",
      "receiver_bank_account_id", "status" }

locals(a) == ("self" :> PyObject("ColumnClient")) @@ a

\* "created" in k, for the names locals() holds
contains_created(k) == k \in {"created_gt", "created_lt", "created_gte", "created_lte"}

\* if created_x: params["created.x"] = created_x.isoformat(), four times
created_params(a) ==
    LET set == {key \in CREATED_KEYS : Truthy(a["created_" \o key])}
        dotted == {"created." \o key : key \in set}
    IN [p \in dotted |->
          LET key == CHOOSE key \in set : p = "created." \o key
          IN JStr(isoformat(a["created_" \o key].dt))]

\* {k: v for k, v in locals().items() if v is not None and "created" not in k}
not_none_locals(a) ==
    LET l == locals(a)
    IN [k \in {k \in DOMAIN l : l[k] /= None /\ ~contains_created(k)} |-> l[k]]

\* client.py:442-450
list_book_transfers(a) == created_params(a) @@ not_none_locals(a)
\* client.py:467-475
alist_book_transfers(a) == created_params(a) @@ not_none_locals(a)

\* the value of the params= keyword
Params(o, a) ==
    CASE o = "list_bank_accounts" -> list_bank_accounts(a)
      [] o = "alist_bank_accounts" -> alist_bank_accounts(a)
      [] o = "list_counterparties" -> list_counterparties(a)
      [] o = "alist_counterparties" -> alist_counterparties(a)
      [] o = "list_financial_institutions" -> list_financial_institutions(a)
      [] o = "alist_financial_institutions" -> alist_financial_institutions(a)
      [] o = "list_account_numbers" -> list_account_numbers(a)
      [] o = "alist_account_numbers" -> alist_account_numbers(a)
      [] o = "list_book_transfers" -> list_book_transfers(a)
      [] o = "alist_book_transfers" -> alist_book_transfers(a)

\* the value of the json= keyword: kwargs itself, but for the book transfer
Json(o, a) ==
    CASE o = "create_book_transfer" -> create_book_transfer(a)
      [] o = "acreate_book_transfer" -> acreate_book_transfer(a)
      [] OTHER -> a.kwargs.d

\* the f-string of the path
Path(o, a) ==
    LET r == Route(o)
    IN IF r.idarg = "" THEN r.prefix ELSE r.prefix \o a[r.idarg].s \o r.suffix

\* what the method hands to its transport handle: httpx adds the handle's
\* base_url and auth
Request(o, a, handle) ==
    [ handle |-> Route(o).handle,
      method |-> Route(o).method,
      base_url |-> handle.base_url,
      auth |-> handle.auth,
      path |-> Path(o, a),
      params |-> IF Route(o).payload = "params" THEN JObj(Params(o, a)) ELSE Absent,
      json |-> IF Route(o).payload = "json" THEN JObj(Json(o, a)) ELSE Absent ]

\* Response.url: the URL of the request
Url(req) == [k |-> "url", base_url |-> req.base_url, path |-> req.path, params |-> req.params]

(***************************************************************************)
(* The arguments callers pass: small pools per method.                     *)
(***************************************************************************)
Ids == {"ent_123", "book_abc"}

AddressDict ==
    JObj([city |-> JStr("San Francisco"), country_code |-> JStr("US"),
          line_1 |-> JStr("1 Main St")])

\* the keys of each TypedDict a method unpacks into **kwargs: those a call must
\* pass, with a value, and those it may leave out or pass as None
Required(typed) ==
    CASE typed = "PersonEntityDict" ->
           [first_name |-> JStr("Ada"), last_name |-> JStr("Lovelace"),
            date_of_birth |-> JStr("1815-12-10"), address |-> AddressDict]
      [] typed = "BusinessEntityDict" ->
           [ein |-> JStr("12-3456789"), business_name |-> JStr("Acme"),
            address |-> AddressDict, beneficial_owners |-> JList(<<>>)]
      [] typed = "DocumentSubmitDict" -> [document_front_id |-> JStr("docu_1")]
      [] typed = "BankAccountCreateDict" -> [entity_id |-> JStr("ent_123")]
      [] typed = "BankAccountUpdateDict" -> EmptyDict
      [] typed = "AccountNumberCreateDict" -> [description |-> JStr("payroll")]
      [] typed = "CounterpartyCreateDict" ->
           [routing_number |-> JStr("322271627"), account_number |-> JStr("123456")]

Optional(typed) ==
    CASE typed = "PersonEntityDict" ->
           [middle_name |-> JStr("King"), ssn |-> JStr("123-45-6789"),
            passport |-> JObj([country_code |-> JStr("GB"), number |-> JStr("P1")]),
            email |-> JStr("ada@example.com")]
      [] typed = "BusinessEntityDict" ->
           [website |-> JStr("acme.example"), legal_type |-> JStr("llc")]
      [] typed = "DocumentSubmitDict" ->
           [document_back_id |-> JStr("docu_2"), description |-> JStr("")]
      [] typed \in {"BankAccountCreateDict", "BankAccountUpdateDict"} ->
           [description |-> JStr("main"), is_overdraftable |-> JBool(FALSE),
            overdraft_reserve_account_id |-> JStr("bacc_9"),
            display_name |-> JStr("Main")]
      [] typed = "AccountNumberCreateDict" -> EmptyDict
      [] typed = "CounterpartyCreateDict" ->
           [routing_number_type |-> JStr("aba"), account_type |-> JStr("checking"),
            description |-> JStr(""), wire_drawdown_allowed |-> JBool(FALSE),
            name |-> JStr("Bob"), address |-> AddressDict]

\* all optional keys passed, none passed, one passed alone, one passed as None
KwargsPool(typed) ==
    LET req == Required(typed)
        opt == Optional(typed)
    IN {opt @@ req, req}
       \cup {(f :> opt[f]) @@ req : f \in DOMAIN opt}
       \cup {(f :> None) @@ req : f \in DOMAIN opt}
       \cup {(f :> None) @@ opt @@ req : f \in DOMAIN opt}

\* the range of creation times a list call passes as created=
CreatedBounds ==
    { [k \in S |-> PyDatetime(IF k \in {"gt", "gte"} THEN T1 ELSE T2)] : S \in SUBSET CREATED_KEYS }
    \cup { [k \in CREATED_KEYS |-> PyDatetime(T3)],
           [gt |-> None, lte |-> PyDatetime(T4)] }

\* the scalar filters of the list calls that take **kwargs
ScalarFilters(typed) ==
    CASE typed = "BankAccountListParams" ->
           { EmptyDict, [limit |-> JInt(10)], [limit |-> JInt(0), starting_after |-> JStr("")],
             [is_overdraftable |-> JBool(FALSE), type |-> JStr("CHECKING")],
             [limit |-> None, ending_before |-> JStr("bacc_5")],
             [is_overdraftable |-> JBool(TRUE), type |-> JStr("PROGRAM_RESERVE"),
              overdraft_reserve_account_id |-> JStr("bacc_9"), limit |-> JInt(7),
              starting_after |-> JStr("bacc_1"), ending_before |-> JStr("bacc_5")] }
      [] typed = "CounterpartyListParams" ->
           { EmptyDict, [limit |-> JInt(10)], [limit |-> JInt(0), starting_after |-> JStr("")],
             [account_number |-> JStr("123456"), routing_number |-> None],
             [limit |-> JInt(7), starting_after |-> JStr("cpty_1"),
              starting_before |-> JStr("cpty_5"), account_number |-> JStr("123456"),
              routing_number |-> JStr("322271627")] }
      [] typed = "FinancialInstitutionListParams" ->
           { EmptyDict, [limit |-> JInt(10)], [limit |-> JInt(0), name |-> JStr("")],
             [country_code |-> JStr("US"), routing_number_type |-> None],
             [limit |-> JInt(7), starting_after |-> JStr("1"),
              starting_before |-> JStr("5"), country_code |-> JStr("US"),
              name |-> JStr("CHASE"), routing_number_type |-> JStr("aba")] }

ListKwargsPool(typed) ==
    ScalarFilters(typed)
    \cup (IF typed = "FinancialInstitutionListParams" THEN {}
          ELSE {("created" :> JObj(c)) : c \in CreatedBounds}
               \cup {("created" :> JObj([gte |-> PyDatetime(T1), lte |-> PyDatetime(T2)]))
                        @@ [limit |-> JInt(10), starting_after |-> JStr("x_1")]})

TransferStatus == {"REJECTED", "COMPLETED", "HOLD", "CANCELED"}

\* list_book_transfers(**given): the parameters not given default to None
Defaulted(names, given) == given @@ [n \in names |-> None]

BookListPool ==
    { Defaulted(BOOK_LIST_PARAMETERS, g) : g \in
        { [k \in {"created_" \o b : b \in DOMAIN c} |->
                 c[CHOOSE b \in DOMAIN c : k = "created_" \o b]] : c \in CreatedBounds }
        \cup { [limit |-> JInt(n)] : n \in {0, 10} }
        \cup { (k :> JStr(s)) : k \in {"starting_after", "ending_before",
                                        "sender_bank_account_id",
                                        "receiver_bank_account_id"},
                                 s \in {"", "bacc_1"} }
        \cup { [status |-> JStr(s)] : s \in TransferStatus }
        \cup { [limit |-> JInt(10), starting_after |-> JStr("book_1"),
                ending_before |-> JStr("book_9"), created_gte |-> PyDatetime(T1),
                created_lte |-> PyDatetime(T2), sender_bank_account_id |-> JStr("bacc_1"),
                receiver_bank_account_id |-> JStr("bacc_2"), status |-> JStr("HOLD")] } }

AccountNumberListPool ==
    { [limit |-> l, starting_after |-> s, ending_before |-> e] :
        l \in {None, JInt(0), JInt(10)},
        s \in {None, JStr(""), JStr("acno_1")},
        e \in {None, JStr("acno_9")} }

TransferDetailsDict ==
    JObj([sender_name |-> JStr("Ada"), website |-> None, address |-> AddressDict])

\* the optional arguments of create_book_transfer, each with a value and with
\* a value that is falsy or holds a None of its own
BookOptional ==
    [ description |-> {JStr("rent"), JStr("")},
      sender_bank_account_id |-> {JStr("bacc_1")},
      sender_account_number_id |-> {JStr("acno_1")},
      receiver_bank_account_id |-> {JStr("bacc_2")},
      receiver_account_number_id |-> {JStr("acno_2")},
      allow_overdraft |-> {JBool(TRUE), JBool(FALSE)},
      hold |-> {JBool(TRUE), JBool(FALSE)},
      details |-> {TransferDetailsDict} ]

BookCreatePool ==
    { Defaulted(CreateBookTransferBody, g) : g \in
        { [amount |-> JInt(n), currency_code |-> JStr("USD")] : n \in {0, 50000} }
        \cup UNION { { (k :> v) @@ [amount |-> JInt(50000), currency_code |-> JStr("USD")] :
                        v \in BookOptional[k] } : k \in DOMAIN BookOptional }
        \cup { [k \in DOMAIN BookOptional |-> CHOOSE v \in BookOptional[k] : TRUE]
                 @@ [amount |-> JInt(50000), currency_code |-> JStr("USD")] }
        \cup { [sender_bank_account_id |-> JStr("bacc_1"),
                receiver_account_number_id |-> JStr("acno_2"),
                amount |-> JInt(1), currency_code |-> JStr("USD")] } }

\* the arguments of one call of method o
ArgsPool(o) ==
    LET r == Route(o)
        ids == IF r.idarg = "" THEN {EmptyDict}
               ELSE IF r.payload = "params" THEN {(r.idarg :> JStr("ent_123"))}
               ELSE {(r.idarg :> JStr(i)) : i \in Ids}
    IN CASE o \in {"list_book_transfers", "alist_book_transfers"} -> BookListPool
         [] o \in {"create_book_transfer", "acreate_book_transfer"} -> BookCreatePool
         [] o \in {"list_account_numbers", "alist_account_numbers"} ->
              {l @@ i : l \in AccountNumberListPool, i \in ids}
         [] r.payload = "params" ->
              {("kwargs" :> JObj(kw)) @@ i : kw \in ListKwargsPool(r.typed), i \in ids}
         [] r.payload = "json" ->
              {("kwargs" :> JObj(kw)) @@ i : kw \in KwargsPool(r.typed), i \in ids}
         [] OTHER -> ids

ArgsPoolOf == [o \in Ops |-> ArgsPool(o)]

(***************************************************************************)
(* The responses a server gives: small pools per method.                   *)
(***************************************************************************)
RECURSIVE Sample(_, _)
\* a JSON value of the declared type; a string field holds its own name
Sample(t, name) ==
    CASE t.t = "str" -> JStr(name)
      [] t.t = "int" -> JInt(7)
      [] t.t = "bool" -> JBool(TRUE)
      [] t.t = "datetime" -> JStr("2022-03-02T22:44:35Z")
      [] t.t = "date" -> JStr("2022-03-02")
      [] t.t = "opt" -> Sample(t.of, name)
      [] t.t = "list" -> JList(<<Sample(t.of, name)>>)
      [] t.t = "dict" -> JObj([reason |-> JStr("state")])
      [] t.t = "lit" -> JStr(CHOOSE v \in t.vals : TRUE)
      [] t.t = "model" ->
           JObj([f \in DOMAIN Schema(t.name) |-> Sample(Schema(t.name)[f], f)])

\* the body a compliant server sends for a model; an entity and a bank account
\* carry their type
BaseBody(model) ==
    LET b == Sample(TModel(model), model).d
    IN CASE model = "PersonEntity" -> ("type" :> JStr("PERSON")) @@ b
         [] model = "BusinessEntity" -> ("type" :> JStr("BUSINESS")) @@ b
         [] model = "BankAccount" -> ("type" :> JStr("CHECKING")) @@ b
         [] model = "BankAccountList" ->
              ("bank_accounts" :>
                  JList(<<JObj(("type" :> JStr("CHECKING")) @@ b.bank_accounts.l[1].d)>>)) @@ b
         [] OTHER -> b

DropField(b, f) == [g \in DOMAIN b \ {f} |-> b[g]]
ReplaceField(b, f, v) == (f :> v) @@ b

\* the values a drifted server puts in a field of the declared type t: null,
\* and values of other JSON types, those pydantic coerces among them
Replacements(t) ==
    CASE t.t = "str" -> {JNull, JInt(1)}
      [] t.t = "int" -> {JNull, JStr("x"), JStr("1"), JBool(TRUE)}
      [] t.t = "bool" -> {JNull, JStr("x"), JStr("1"), JInt(1), JInt(7)}
      [] t.t = "datetime" -> {JNull, JStr("x"), JInt(1), JBool(TRUE)}
      [] t.t = "opt" -> {JNull, JInt(1)}
      [] t.t = "lit" -> {JNull, JStr("x")}
      [] OTHER -> {JNull, JStr("x"), JList(<<>>), JObj(EmptyDict)}

ModelBodies(model) ==
    LET b == BaseBody(model)
    IN {JObj(b), JObj(("undeclared" :> JStr("extra")) @@ b), JNull, JList(<<>>)}
       \cup {JObj(DropField(b, f)) : f \in DOMAIN b}
       \cup UNION { {JObj(ReplaceField(b, f, v)) : v \in Replacements(Schema(model)[f])} :
                     f \in DOMAIN Schema(model) }

EntityBodies ==
    ModelBodies("PersonEntity") \cup ModelBodies("BusinessEntity")
    \cup { JObj(ReplaceField(BaseBody("PersonEntity"), "type", JStr("OTHER"))),
           JObj(ReplaceField(BaseBody("PersonEntity"), "type", JStr("BUSINESS"))),
           JObj(ReplaceField(BaseBody("BusinessEntity"), "type", JStr("PERSON"))),
           JObj(ReplaceField(BaseBody("BusinessEntity"), "type", JStr("entity_error"))) }

ErrorBody(type, code) ==
    [ type |-> JStr(type), code |-> JStr(code), message |-> JStr("Transfer is not in HOLD"),
      documentation_url |-> JStr("https://column.com/docs/errors"),
      details |-> JObj([reason |-> JStr("state")]) ]

\* the bodies of responses that are not 200: error bodies, well-formed and not
ErrorBodies ==
    LET e == ErrorBody("transfer_error", "invalid_state")
    IN { JObj(e), JObj(ErrorBody("entity_error", "not_found")),
         JObj(ReplaceField(e, "details", JObj(EmptyDict))),
         JObj(ReplaceField(e, "type", JStr("unknown_error"))),
         JObj(ReplaceField(e, "details", JObj([reason |-> JInt(1)]))),
         JObj(EmptyDict), NotJson }
       \cup {JObj(DropField(e, f)) : f \in DOMAIN e}

\* 200 bodies of the declared shape whose values are outside what the
\* documentation of the model says of them: a bank account of another type,
\* one with a negative balance, and a page that holds such an account; a book
\* transfer of another status, and a page that holds one
OutOfRangeBodies(model) ==
    LET b == BaseBody("BankAccount")
        other == ReplaceField(b, "type", JStr("SAVINGS"))
        overdrawn == ReplaceField(b, "balances",
                        JObj(ReplaceField(b.balances.d, "available_amount", JInt(-1))))
    IN CASE model = "BankAccount" -> {JObj(other), JObj(overdrawn)}
         [] model = "BankAccountList" ->
              {JObj(ReplaceField(BaseBody(model), "bank_accounts", JList(<<JObj(a)>>))) :
                  a \in {other, overdrawn}}
         [] model = "BookTransfer" ->
              {JObj(ReplaceField(BaseBody(model), "status", JStr(st))) :
                  st \in {"PENDING", "hold"}}
         [] model = "BookTransferList" ->
              {JObj(ReplaceField(BaseBody(model), "data",
                  JList(<<JObj(BaseBody("BookTransfer")),
                          JObj(ReplaceField(BaseBody("BookTransfer"), "status",
                                            JStr("PENDING")))>>)))}
         [] OTHER -> {}

StatusCodes ==
    {200, 201, 204, 302, 400, 401, 402, 403, 404, 409, 422, 429, 499, 500, 502, 503}

\* the bodies of the 200 responses to method o
OkBodies(o) ==
    LET r == Route(o)
    IN {NotJson} \cup
       CASE r.tail = "_get_entity" -> EntityBodies
         [] r.tail = "_parse_response" -> ModelBodies(r.model) \cup OutOfRangeBodies(r.model)
         [] OTHER -> {JObj(EmptyDict), JNull, JObj(BaseBody("BookTransfer"))}

\* the pools, computed once
OkBodiesOf == [o \in Ops |-> OkBodies(o)]

\* every status with a well-formed error body, with a body that is no JSON
\* and with an error body that lacks its code; the other malformed error
\* bodies with some of the statuses
Bodies(o, status_code) ==
    IF status_code = 200 THEN OkBodiesOf[o]
    ELSE IF status_code \in {400, 500} THEN ErrorBodies
    ELSE IF status_code = 409
         THEN {JObj(ErrorBody("transfer_error", "invalid_state")), NotJson, JObj(EmptyDict)}
    ELSE {JObj(ErrorBody("transfer_error", "invalid_state")), NotJson,
          JObj(DropField(ErrorBody("transfer_error", "invalid_state"), "code"))}

(***************************************************************************)
(* The state machine: construction, and each call in its two halves,       *)
(* before and after the transport answers.                                 *)
(***************************************************************************)
Init ==
    /\ api_key = None /\ env = None /\ client = None /\ async_client = None
    /\ ctor_error = None
    /\ pc = "idle" /\ op = "none" /\ args = None
    /\ request = None /\ response = None /\ outcome = None
    /\ sent = 0
    /\ calls = <<>>

\* __init__ had it pointed the handles of a test_ key at a sandbox address
__init___by_env(key) ==
    /\ client = None
    /\ LET e == _parse_env(key)
           address == IF e.ok /\ e.v = JStr("test")
                      THEN "https://api.sandbox.column.com" ELSE COLUMN_API_ADDRESS
       IN
       IF e.ok
       THEN /\ env' = e.v
            /\ api_key' = JStr(key)
            /\ client' = Client(address, <<"", key>>)
            /\ async_client' = AsyncClient(address, <<"", key>>)
            /\ ctor_error' = None
       ELSE /\ ctor_error' = [key |-> key, err |-> e.err]
            /\ UNCHANGED clientVars
    /\ UNCHANGED <<callVars, calls>>

\* client.py:51-55
__init__(key) ==
    /\ client = None
    /\ LET e == _parse_env(key) IN
       IF e.ok
       THEN /\ env' = e.v
            /\ api_key' = JStr(key)
            /\ client' = Client(COLUMN_API_ADDRESS, <<"", key>>)
            /\ async_client' = AsyncClient(COLUMN_API_ADDRESS, <<"", key>>)
            /\ ctor_error' = None
       ELSE /\ ctor_error' = [key |-> key, err |-> e.err]
            /\ UNCHANGED clientVars
    /\ UNCHANGED <<callVars, calls>>

\* the handler that ends method o, applied to the response
Finish(o, resp) ==
    CASE Route(o).tail = "_get_entity" -> _get_entity(resp)
      [] Route(o).tail = "_parse_response" -> _parse_response(resp, Route(o).model)
      [] Route(o).tail = "_handle_response" -> _discard_response(resp)

\* a method, up to the call of its transport handle
Call(o, a) ==
    /\ pc = "idle"
    /\ client /= None
    /\ sent < MaxCalls
    /\ op' = o
    /\ args' = a
    /\ request' = Request(o, a, IF Route(o).handle = "_client" THEN client ELSE async_client)
    /\ sent' = sent + 1
    /\ pc' = "awaiting"
    /\ response' = None
    /\ outcome' = None
    /\ UNCHANGED <<clientVars, ctor_error, calls>>

\* Deliver had the method forgotten its key when the server refused it
Deliver_forgetting_key(status_code, body) ==
    /\ LET resp == Response(status_code, body, Url(request))
       IN /\ response' = resp
          /\ outcome' = Finish(op, resp)
    /\ pc' = "returned"
    /\ request' = None
    /\ args' = None
    /\ api_key' = IF status_code = 401 THEN None ELSE api_key
    /\ UNCHANGED <<env, client, async_client, ctor_error, calls, op, sent>>

\* Deliver had the method sent its request again on a 429 or a 5xx
Deliver_resending(status_code, body) ==
    IF status_code = 429 \/ status_code >= 500
    THEN /\ sent' = sent + 1
         /\ UNCHANGED <<clientVars, ctor_error, calls, pc, op, args, request, response, outcome>>
    ELSE /\ LET resp == Response(status_code, body, Url(request))
            IN /\ response' = resp
               /\ outcome' = Finish(op, resp)
         /\ pc' = "returned"
         /\ request' = None
         /\ args' = None
         /\ UNCHANGED <<clientVars, ctor_error, calls, op, sent>>

\* the transport answers and the method runs to its end: a returned value
\* or a raised exception
Deliver(status_code, body) ==
    /\ LET resp == Response(status_code, body, Url(request))
       IN /\ response' = resp
          /\ outcome' = Finish(op, resp)
    /\ pc' = "returned"
    /\ request' = None
    /\ args' = None
    /\ UNCHANGED <<clientVars, ctor_error, calls, op, sent>>

\* the caller has the outcome; the client is ready for the next call
Return ==
    /\ pc = "returned"
    /\ pc' = "idle"
    /\ op' = "none"
    /\ response' = None
    /\ outcome' = None
    /\ UNCHANGED <<clientVars, ctor_error, calls, args, request, sent>>

Next ==
    \/ \E key \in ApiKeys : __init__(key)
    \/ \E o \in Ops : \E a \in ArgsPoolOf[o] : Call(o, a)
    \/ /\ pc = "awaiting"
       /\ \E status_code \in StatusCodes : \E body \in Bodies(op, status_code) :
             Deliver(status_code, body)
    \/ Return

Spec == Init /\ [][Next]_vars

(***************************************************************************)
(* Calls of several threads and tasks on one client. Each call is kept,    *)
(* in the order the calls were entered, with its arguments, its request,   *)
(* its response and its outcome; a call may be entered while others wait   *)
(* for their responses, and the responses arrive in any order.             *)
(***************************************************************************)

\* the methods called together: a read of each kind, cancel and clear, and a
\* non-blocking variant
ConcurrentOps ==
    {"get_bank_account", "get_book_transfer", "cancel_book_transfer",
     "clear_book_transfer", "acancel_book_transfer"}

\* the responses to method o, as <<status, body>>
ConcurrentResponses ==
    [o \in ConcurrentOps |->
       LET model == Route(o).model IN
       CASE model = "BankAccount" ->
              {<<200, JObj(BaseBody(model))>>,
               <<200, JObj(ReplaceField(BaseBody(model), "description", JStr("renamed")))>>,
               <<429, JObj(ErrorBody("limit_error", "rate_limited"))>>}
         [] model = "BookTransfer" ->
              {<<200, JObj(ReplaceField(BaseBody(model), "status", JStr("HOLD")))>>,
               <<200, JObj(ReplaceField(BaseBody(model), "status", JStr("COMPLETED")))>>,
               <<429, JObj(ErrorBody("limit_error", "rate_limited"))>>}
         [] OTHER ->
              {<<200, JObj(EmptyDict)>>,
               <<400, JObj(ErrorBody("transfer_error", "invalid_state"))>>,
               <<400, JObj(ErrorBody("transfer_error", "insufficient_funds"))>>,
               <<429, JObj(ErrorBody("limit_error", "rate_limited"))>>}]

\* Enter had the methods kept what they returned, by method and arguments, and
\* answered a repeated call from what they kept
Enter_cached(o, a) ==
    /\ client /= None
    /\ Len(calls) < MaxIssued
    /\ LET kept == {i \in DOMAIN calls :
                      /\ calls[i].op = o /\ calls[i].args = a
                      /\ calls[i].pc = "returned" /\ calls[i].outcome.ok}
       IN IF kept /= {}
          THEN calls' = Append(calls,
                 [ pc |-> "returned", op |-> o, args |-> a, request |-> None,
                   response |-> None,
                   outcome |-> calls[CHOOSE i \in kept : TRUE].outcome ])
          ELSE calls' = Append(calls,
                 [ pc |-> "awaiting", op |-> o, args |-> a,
                   request |-> Request(o, a, IF Route(o).handle = "_client"
                                             THEN client ELSE async_client),
                   response |-> None, outcome |-> None ])
    /\ UNCHANGED <<clientVars, ctor_error, callVars>>

\* Enter had cancel and clear looked the transfer up among the transfers the
\* client has read, and refused one it knows not to be in HOLD
Enter_prechecked(o, a) ==
    /\ client /= None
    /\ Len(calls) < MaxIssued
    /\ LET known == \E i \in DOMAIN calls :
                      /\ calls[i].op = "get_book_transfer"
                      /\ calls[i].args = a
                      /\ calls[i].pc = "returned"
                      /\ calls[i].outcome.ok
                      /\ calls[i].outcome.v.f.status /= JStr("HOLD")
       IN IF Route(o).suffix \in {"/cancel", "/clear"} /\ known
          THEN calls' = Append(calls,
                 [ pc |-> "returned", op |-> o, args |-> a, request |-> None,
                   response |-> None,
                   outcome |-> Raises(ValueError("Transfer is not in HOLD")) ])
          ELSE calls' = Append(calls,
                 [ pc |-> "awaiting", op |-> o, args |-> a,
                   request |-> Request(o, a, IF Route(o).handle = "_client"
                                             THEN client ELSE async_client),
                   response |-> None, outcome |-> None ])
    /\ UNCHANGED <<clientVars, ctor_error, callVars>>

\* a thread or a task enters method o: the method builds its request and
\* hands it to its transport handle
Enter(o, a) ==
    /\ client /= None
    /\ Len(calls) < MaxIssued
    /\ calls' = Append(calls,
          [ pc |-> "awaiting", op |-> o, args |-> a,
            request |-> Request(o, a, IF Route(o).handle = "_client"
                                      THEN client ELSE async_client),
            response |-> None, outcome |-> None ])
    /\ UNCHANGED <<clientVars, ctor_error, callVars>>

\* Complete had the handler read the response from an attribute of the client
\* that every call in progress writes
Complete_shared_response(i, status_code, body) ==
    /\ calls[i].pc = "awaiting"
    /\ LET resp == Response(status_code, body, Url(calls[i].request))
           others == {j \in DOMAIN calls : j /= i /\ calls[j].pc = "returned"}
           read == IF others = {} THEN resp
                   ELSE calls[CHOOSE j \in others : TRUE].response
       IN calls' = [calls EXCEPT ![i] =
              [@ EXCEPT !.pc = "returned", !.response = resp,
                        !.outcome = Finish(calls[i].op, read)]]
    /\ UNCHANGED <<clientVars, ctor_error, callVars>>

\* the transport answers call i and the method runs its handler
Complete(i, status_code, body) ==
    /\ calls[i].pc = "awaiting"
    /\ LET resp == Response(status_code, body, Url(calls[i].request))
       IN calls' = [calls EXCEPT ![i] =
              [@ EXCEPT !.pc = "returned", !.response = resp,
                        !.outcome = Finish(calls[i].op, resp)]]
    /\ UNCHANGED <<clientVars, ctor_error, callVars>>

NextConcurrent ==
    \/ \E key \in ApiKeys : __init__(key)
    \/ \E o \in ConcurrentOps : \E a \in ArgsPool(o) : Enter(o, a)
    \/ \E i \in DOMAIN calls :
          /\ calls[i].pc = "awaiting"
          /\ \E r \in ConcurrentResponses[calls[i].op] : Complete(i, r[1], r[2])

SpecConcurrent == Init /\ [][NextConcurrent]_vars

(***************************************************************************)
(* Properties of construction.                                             *)
(***************************************************************************)
\* the key begins with the characters of p
KeyBegins(key, p) == Len(key) >= Len(p) /\ \A i \in 1..Len(p) : key[i] = p[i]

\* C1: a key that starts with test_ constructs a client whose environment is
\* "test", a key that starts with live_ one whose environment is "live", and
\* every other key fails with ValueError("Invalid API key") and leaves no
\* client (nor transport handle) behind.
C1_ConstructionByPrefix ==
    /\ client /= None =>
          /\ ctor_error = None
          /\ \/ KeyBegins(api_key.s, <<"t", "e", "s", "t", "_">>) /\ env = JStr("test")
             \/ KeyBegins(api_key.s, <<"l", "i", "v", "e", "_">>) /\ env = JStr("live")
    /\ ctor_error /= None =>
          /\ ~KeyBegins(ctor_error.key, <<"t", "e", "s", "t", "_">>)
          /\ ~KeyBegins(ctor_error.key, <<"l", "i", "v", "e", "_">>)
          /\ ctor_error.err = [cls |-> "ValueError", msg |-> "Invalid API key"]
          /\ client = None /\ async_client = None /\ env = None /\ api_key = None

\* a live_ key was accepted
C1_Witness ==
    /\ client /= None
    /\ env = JStr("live")
    /\ api_key = JStr(<<"l", "i", "v", "e", "_", "4", "2">>)
    /\ pc = "idle" /\ sent = 0


(***************************************************************************)
(* Properties of decoding a 200 response.                                  *)
(***************************************************************************)
\* the method decodes the body of a 200 response to a model
ReturnsModel(o) == Route(o).tail \in {"_parse_response", "_get_entity"}

\* the model the body of a 200 response to method o is to be decoded to; ""
\* when an entity's body names neither kind
DeclaredShape(o, body) ==
    IF Route(o).tail = "_parse_response" THEN Route(o).model
    ELSE IF "type" \notin DOMAIN body.d THEN ""
    ELSE IF body.d.type = JStr("PERSON") THEN "PersonEntity"
    ELSE IF body.d.type = JStr("BUSINESS") THEN "BusinessEntity"
    ELSE ""

RECURSIVE Matches(_, _)
\* the JSON value x has the declared type t, with no conversion: a string for
\* str, a number for int, an ISO-8601 string for datetime, an object with
\* every declared field for a model
Matches(t, x) ==
    CASE t.t = "str" -> x.k = "str"
      [] t.t = "int" -> x.k = "int"
      [] t.t = "bool" -> x.k = "bool"
      [] t.t = "datetime" -> x.k = "str" /\ x.s \in IsoStrings
      [] t.t = "date" -> x.k = "str" /\ \E d \in DateTimes : x.s = isodate(d)
      [] t.t = "opt" -> x.k = "null" \/ Matches(t.of, x)
      [] t.t = "list" -> x.k = "list" /\ \A i \in DOMAIN x.l : Matches(t.of, x.l[i])
      [] t.t = "dict" -> x.k = "dict" /\ \A f \in DOMAIN x.d : Matches(t.of, x.d[f])
      [] t.t = "lit" -> x.k = "str" /\ x.s \in t.vals
      [] t.t = "model" ->
           /\ x.k = "dict"
           /\ \A f \in DOMAIN Schema(t.name) :
                 f \in DOMAIN x.d /\ Matches(Schema(t.name)[f], x.d[f])

\* the value is a model of class M with the declared fields, and its string,
\* number, boolean and literal fields equal the body's
FieldsEqual(M, body, value) ==
    /\ value.k = "model"
    /\ value.cls = M
    /\ DOMAIN value.f = DOMAIN Schema(M)
    /\ \A f \in DOMAIN Schema(M) :
          Schema(M)[f].t \in {"str", "int", "bool", "lit"} => value.f[f] = body.d[f]

\* a decimal numeral of the model's numbers
Numeral(s) == \E n \in SmallInts : s = ToString(n)

RECURSIVE Unconvertible(_, _)
\* pydantic's lax mode has no conversion of the JSON value x to a field of
\* type t
Unconvertible(t, x) ==
    CASE t.t = "str" -> x.k /= "str"
      [] t.t = "int" -> ~(x.k \in {"int", "bool"} \/ (x.k = "str" /\ Numeral(x.s)))
      [] t.t = "bool" ->
           ~ \/ x.k = "bool"
             \/ x.k = "int" /\ x.n \in {0, 1}
             \/ x.k = "str" /\ x.s \in {"0", "1", "true", "false", "t", "f",
                                        "yes", "no", "y", "n", "on", "off"}
      [] t.t = "datetime" ->
           ~(x.k = "int" \/ (x.k = "str" /\ (x.s \in IsoStrings \/ Numeral(x.s))))
      [] t.t = "opt" -> x.k /= "null" /\ Unconvertible(t.of, x)
      [] t.t = "lit" -> ~(x.k = "str" /\ x.s \in t.vals)
      [] t.t = "list" -> x.k /= "list"
      [] t.t \in {"dict", "model"} -> x.k /= "dict"
      [] OTHER -> FALSE

RECURSIVE Converts(_, _)
\* x is of another JSON type than t declares, and lax mode converts it
Converts(t, x) ==
    CASE t.t = "int" -> x.k = "bool" \/ (x.k = "str" /\ Numeral(x.s))
      [] t.t = "bool" -> \/ x.k = "int" /\ x.n \in {0, 1}
                         \/ x.k = "str" /\ x.s \in {"0", "1", "true", "false"}
      [] t.t = "datetime" -> x.k = "int" \/ (x.k = "str" /\ Numeral(x.s))
      [] t.t = "opt" -> Converts(t.of, x)
      [] OTHER -> FALSE

RECURSIVE KindOf(_)
\* the Python type of a validated field of type t
KindOf(t) ==
    CASE t.t = "opt" -> KindOf(t.of)
      [] t.t = "lit" -> "str"
      [] OTHER -> t.t

\* a method that returns a model has returned from a 200 response whose body
\* is a JSON object
Decoded200 ==
    /\ pc = "returned"
    /\ ReturnsModel(op)
    /\ response.status_code = 200
    /\ response.body.k = "dict"

DecodeFails == ~outcome.ok /\ outcome.err.cls = "ValidationError"

\* C2 as stated: on a 200 response a body that matches the declared shape is
\* returned as a value with equal fields, and a body that lacks a required
\* field or has a field of another type than declared fails with a decode
\* error and returns nothing.
C2_WrongTypeAlwaysFails ==
    Decoded200 /\ DeclaredShape(op, response.body) /= "" =>
        LET M == DeclaredShape(op, response.body)
        IN IF Matches(TModel(M), response.body)
           THEN outcome.ok /\ FieldsEqual(M, response.body, outcome.v)
           ELSE DecodeFails

\* C2, amended: on a 200 response a body that matches the declared shape is
\* returned as a value with equal fields; a body that lacks a required field,
\* or holds in a field a value pydantic's lax mode cannot convert to the
\* declared type, fails with ValidationError and returns nothing (an entity
\* body without "type" fails with KeyError); a value of another JSON type that
\* lax mode converts (a numeral or a boolean for an int, 0, 1, "true" or
\* "false" for a bool, a number or a numeral for a datetime) is accepted and
\* converted to the declared type.
C2_DecodeOf200 ==
    Decoded200 =>
        LET M == DeclaredShape(op, response.body)
            S == Schema(M)
            b == response.body.d
        IN /\ Route(op).tail = "_get_entity" /\ "type" \notin DOMAIN b =>
                ~outcome.ok /\ outcome.err = [cls |-> "KeyError", key |-> "type"]
           /\ M /= "" =>
                /\ Matches(TModel(M), response.body) =>
                      outcome.ok /\ FieldsEqual(M, response.body, outcome.v)
                /\ (\E f \in DOMAIN S : f \notin DOMAIN b) => DecodeFails
                /\ (\E f \in DOMAIN S : f \in DOMAIN b /\ Unconvertible(S[f], b[f])) =>
                      DecodeFails
                /\ (\A f \in DOMAIN S :
                       f \in DOMAIN b /\ (Matches(S[f], b[f]) \/ Converts(S[f], b[f]))) =>
                      /\ outcome.ok
                      /\ outcome.v.cls = M
                      /\ \A f \in DOMAIN S :
                            Converts(S[f], b[f]) => outcome.v.f[f].k = KindOf(S[f])

\* get_book_transfer got a 200 body whose amount is the string "1" and
\* returned a BookTransfer whose amount is the number 1
C2_Witness ==
    /\ pc = "returned"
    /\ op = "get_book_transfer"
    /\ response.status_code = 200
    /\ response.body.k = "dict"
    /\ "amount" \in DOMAIN response.body.d
    /\ response.body.d.amount = JStr("1")
    /\ outcome.ok
    /\ outcome.v.cls = "BookTransfer"
    /\ outcome.v.f.amount = JInt(1)


(***************************************************************************)
(* Properties of the responses that are not 200.                           *)
(***************************************************************************)
\* the statuses the handler takes for API errors
ErrorStatus(n) == n \in {400, 401, 403, 404, 429} \/ n >= 500

\* the body is a JSON object of the error-response shape
ErrorShaped(body) ==
    /\ body.k = "dict"
    /\ {"type", "code", "message", "documentation_url", "details"} \subseteq DOMAIN body.d
    /\ body.d.type.k = "str"
    /\ body.d.type.s \in {"authentication_error", "bank_account_error", "dashboard_error",
                          "entity_error", "limit_error", "loan_error",
                          "request_validation_error", "server_error", "transfer_error"}
    /\ body.d.code.k = "str"
    /\ body.d.message.k = "str"
    /\ body.d.documentation_url.k = "str"
    /\ body.d.details.k = "dict"
    /\ \A f \in DOMAIN body.d.details.d : body.d.details.d[f].k = "str"

\* the raised error is the API error of the response: its status, and the
\* type, code and details of a body that has them
ApiErrorOf(err, resp) ==
    /\ err.cls = "ColumnClientException"
    /\ err.status_code = JInt(resp.status_code)
    /\ ErrorShaped(resp.body) =>
          /\ err.type = resp.body.d.type
          /\ err.code = resp.body.d.code
          /\ err.details = resp.body.d.details

\* C3 as stated: every response with an error status, whatever its body, makes
\* the operation fail with ColumnClientException carrying the status and the
\* type, code and details of the body, and never return a value.
C3_EveryErrorStatusIsApiError ==
    pc = "returned" /\ ErrorStatus(response.status_code) =>
        ~outcome.ok /\ ApiErrorOf(outcome.err, response)

\* C3, amended: a response with an error status whose body is a JSON object
\* of the error-response shape makes the operation fail with
\* ColumnClientException carrying the status and the type, code and details
\* of the body; with a body that is no JSON it fails with JSONDecodeError,
\* with a JSON body of another shape with ValidationError; in no case does it
\* return a value.
C3_ApiErrorOfErrorBody ==
    pc = "returned" /\ ErrorStatus(response.status_code) =>
        /\ ~outcome.ok
        /\ IF ErrorShaped(response.body) THEN ApiErrorOf(outcome.err, response)
           ELSE IF response.body.k = "notjson" THEN outcome.err.cls = "JSONDecodeError"
           ELSE outcome.err.cls = "ValidationError"

\* cancel_book_transfer got a 400 with a transfer_error / invalid_state body
\* and raised the API error with code invalid_state
C3_Witness ==
    /\ pc = "returned"
    /\ op = "cancel_book_transfer"
    /\ response.status_code = 400
    /\ ErrorShaped(response.body)
    /\ response.body.d.type = JStr("transfer_error")
    /\ ~outcome.ok
    /\ outcome.err.cls = "ColumnClientException"
    /\ outcome.err.code = JStr("invalid_state")
    /\ outcome.err.status_code = JInt(400)

\* the raised error is the unexpected-status error of the response
UnexpectedStatusOf(err, resp) ==
    err = [cls |-> "ValueError", msg |-> "Unhandled status code: ",
           arg |-> JInt(resp.status_code)]

\* C4 as stated: every response whose status is neither 200 nor an error
\* status makes the operation fail with the unexpected-status error, whatever
\* the body, and never return a value.
C4_UnexpectedStatusWhateverBody ==
    pc = "returned" /\ response.status_code /= 200 /\ ~ErrorStatus(response.status_code) =>
        ~outcome.ok /\ UnexpectedStatusOf(outcome.err, response)

\* C4, amended: every response whose status is neither 200 nor an error
\* status, and whose body is JSON, makes the operation fail with
\* ValueError("Unhandled status code: <status>"); with a body that is no JSON
\* (an empty 204 among them) the operation fails with JSONDecodeError before
\* the status is looked at; in no case does it return a value.
C4_UnexpectedStatusOfJsonBody ==
    pc = "returned" /\ response.status_code /= 200 /\ ~ErrorStatus(response.status_code) =>
        /\ ~outcome.ok
        /\ IF response.body.k = "notjson" THEN outcome.err.cls = "JSONDecodeError"
           ELSE UnexpectedStatusOf(outcome.err, response)

\* create_bank_account got a 201 with a JSON body and raised the
\* unexpected-status error
C4_Witness ==
    /\ pc = "returned"
    /\ op = "create_bank_account"
    /\ response.status_code = 201
    /\ response.body.k = "dict"
    /\ ~outcome.ok
    /\ outcome.err.cls = "ValueError"
    /\ outcome.err.arg = JInt(201)


(***************************************************************************)
(* Properties of entity dispatch.                                          *)
(***************************************************************************)
\* the body is decoded as model M: the value returned is an M, a failure is
\* the ValidationError of M, and a body that matches M's shape is returned
DecodedAsModel(M, body) ==
    /\ outcome.ok => outcome.v.k = "model" /\ outcome.v.cls = M
    /\ ~outcome.ok => outcome.err = [cls |-> "ValidationError", title |-> M]
    /\ Matches(TModel(M), body) => outcome.ok /\ FieldsEqual(M, body, outcome.v)

\* C5: in get_entity, aget_entity, submit_document and asubmit_document a 200
\* body whose type is "PERSON" is decoded as PersonEntity, one whose type is
\* "BUSINESS" as BusinessEntity, and one whose type holds any other value
\* fails with ValueError("Unhandled entity type: <type>") and returns no
\* entity.
C5_EntityDispatch ==
    /\ pc = "returned"
    /\ op \in {"get_entity", "aget_entity", "submit_document", "asubmit_document"}
    /\ response.status_code = 200
    /\ response.body.k = "dict"
    /\ "type" \in DOMAIN response.body.d
    => LET type == response.body.d.type
       IN IF type = JStr("PERSON") THEN DecodedAsModel("PersonEntity", response.body)
          ELSE IF type = JStr("BUSINESS")
               THEN DecodedAsModel("BusinessEntity", response.body)
          ELSE /\ ~outcome.ok
               /\ outcome.err = [cls |-> "ValueError", msg |-> "Unhandled entity type: ",
                                 arg |-> type]

\* get_entity got a 200 body of type PERSON and returned a PersonEntity with
\* the body's id
C5_Witness ==
    /\ pc = "returned"
    /\ op = "get_entity"
    /\ response.status_code = 200
    /\ response.body.k = "dict"
    /\ "type" \in DOMAIN response.body.d
    /\ response.body.d.type = JStr("PERSON")
    /\ outcome.ok
    /\ outcome.v.cls = "PersonEntity"
    /\ outcome.v.f.id = response.body.d.id


(***************************************************************************)
(* Properties of the raised API error.                                     *)
(***************************************************************************)
\* C6: the ColumnClientException raised for an error-status response carries
\* the seven items of the error, each readable from it and equal to the
\* response's: type, code, message, documentation_url, details, the HTTP
\* status code and the request URL.
C6_ErrorCarriesSevenItems ==
    pc = "returned" /\ ~outcome.ok /\ outcome.err.cls = "ColumnClientException" =>
        LET e == outcome.err
            b == response.body.d
        IN /\ {"type", "code", "message", "documentation_url", "details",
               "status_code", "url"} \subseteq DOMAIN e
           /\ e.type = b.type
           /\ e.code = b.code
           /\ e.message = b.message
           /\ e.documentation_url = b.documentation_url
           /\ e.details = b.details
           /\ e.status_code = JInt(response.status_code)
           /\ e.url = response.url

(***************************************************************************)
(* Properties of the requests the methods build.                           *)
(***************************************************************************)
\* the create and update methods that send their keyword arguments as the body
KwargsBodyOps ==
    { "create_person", "acreate_person", "update_person", "aupdate_person",
      "create_business", "acreate_business", "update_business", "aupdate_business",
      "create_bank_account", "acreate_bank_account", "update_bank_account",
      "aupdate_bank_account", "create_account_number", "acreate_account_number",
      "create_counterparty", "acreate_counterparty", "submit_document",
      "asubmit_document" }

BookCreateOps == {"create_book_transfer", "acreate_book_transfer"}

\* the arguments of the call that go in the body
BodyArguments ==
    IF op \in BookCreateOps
    THEN [f \in {"amount", "currency_code", "description", "sender_bank_account_id",
                 "sender_account_number_id", "receiver_bank_account_id",
                 "receiver_account_number_id", "allow_overdraft", "hold", "details"}
            |-> args[f]]
    ELSE args.kwargs.d

\* C7: in every create and update method an optional argument that is unset
\* (not supplied, or supplied as None) never appears in the JSON body, as null
\* or otherwise: the keys of the body are exactly the arguments that are set.
C7_UnsetNeverSent ==
    pc = "awaiting" /\ op \in KwargsBodyOps \cup BookCreateOps =>
        /\ request.json.k = "dict"
        /\ \A f \in DOMAIN request.json.d : request.json.d[f] /= None
        /\ DOMAIN request.json.d = {f \in DOMAIN BodyArguments : BodyArguments[f] /= None}

\* C8: create_book_transfer and acreate_book_transfer send a JSON body whose
\* keys are exactly amount, currency_code and the optional arguments given a
\* value other than None, each with the value given.
C8_BookTransferBodyKeys ==
    pc = "awaiting" /\ op \in BookCreateOps =>
        /\ request.json.k = "dict"
        /\ request.params = Absent
        /\ DOMAIN request.json.d =
              {"amount", "currency_code"} \cup
              {f \in DOMAIN BodyArguments : BodyArguments[f] /= None}
        /\ \A f \in DOMAIN request.json.d :
              f /= "details" => request.json.d[f] = args[f]

\* create_book_transfer was called with amount, currency_code and
\* sender_bank_account_id only, and its body has exactly these three keys
C8_Witness ==
    /\ pc = "awaiting"
    /\ op = "create_book_transfer"
    /\ args.sender_bank_account_id = JStr("bacc_1")
    /\ \A f \in DOMAIN args :
          f \notin {"amount", "currency_code", "sender_bank_account_id"} => args[f] = None
    /\ DOMAIN request.json.d = {"amount", "currency_code", "sender_bank_account_id"}


\* the list methods that take a range of creation times
CreatedRangeOps ==
    { "list_bank_accounts", "alist_bank_accounts", "list_counterparties",
      "alist_counterparties", "list_book_transfers", "alist_book_transfers" }

BookListOps == {"list_book_transfers", "alist_book_transfers"}

\* the bound the caller supplied for key ("gt", "lt", "gte", "lte") of the
\* range, None when it was not supplied
SuppliedBound(key) ==
    IF op \in BookListOps THEN args["created_" \o key]
    ELSE IF "created" \notin DOMAIN args.kwargs.d THEN None
    ELSE IF key \in DOMAIN args.kwargs.d.created.d THEN args.kwargs.d.created.d[key]
    ELSE None

\* the ISO-8601 text of the model's datetimes
Iso8601(d) ==
    CASE d = T1 -> "2024-01-02T03:04:05"
      [] d = T2 -> "2024-12-31T23:59:59"
      [] d = T3 -> "2022-03-02T22:44:35.000250+00:00"
      [] d = T4 -> "2022-03-02T22:44:35+00:00"

\* the query keys that are not of the range: the filters of the list methods
\* and the names locals() holds
PlainKeys ==
    { "limit", "starting_after", "ending_before", "starting_before", "is_overdraftable",
      "type", "overdraft_reserve_account_id", "account_number", "routing_number",
      "sender_bank_account_id", "receiver_bank_account_id", "status", "self" }

\* C9: in every list method that takes a range of creation times the query
\* holds created.<k>, with the ISO-8601 text of the bound, for exactly the
\* bounds k of gt, lt, gte, lte that were supplied, no other created.* key,
\* and no key named created.
C9_CreatedRangeKeys ==
    pc = "awaiting" /\ op \in CreatedRangeOps =>
        /\ request.params.k = "dict"
        /\ \A key \in {"gt", "lt", "gte", "lte"} :
              IF SuppliedBound(key) /= None
              THEN /\ ("created." \o key) \in DOMAIN request.params.d
                   /\ request.params.d["created." \o key] =
                         JStr(Iso8601(SuppliedBound(key).dt))
              ELSE ("created." \o key) \notin DOMAIN request.params.d
        /\ "created" \notin DOMAIN request.params.d
        /\ DOMAIN request.params.d \subseteq
              {"created.gt", "created.lt", "created.gte", "created.lte"} \cup PlainKeys

\* list_bank_accounts was called with created={gte: T1, lte: T2} alone and
\* sent created.gte and created.lte and nothing else
C9_Witness ==
    /\ pc = "awaiting"
    /\ op = "list_bank_accounts"
    /\ args.kwargs.d = [created |-> JObj([gte |-> PyDatetime(T1), lte |-> PyDatetime(T2)])]
    /\ DOMAIN request.params.d = {"created.gte", "created.lte"}
    /\ request.params.d["created.gte"] = JStr("2024-01-02T03:04:05")
    /\ request.params.d["created.lte"] = JStr("2024-12-31T23:59:59")

\* the filter options of list_book_transfers
BookListOptions ==
    { "limit", "starting_after", "ending_before", "sender_bank_account_id",
      "receiver_bank_account_id", "status" }

\* C10: every query parameter list_book_transfers and alist_book_transfers
\* send has a primitive value and a key that is a filter option or a dotted
\* created.* key; an option is sent iff the caller gave it a value other than
\* None, and no other local of the method is sent.
C10_OnlyFilterOptionsSent ==
    pc = "awaiting" /\ op \in BookListOps =>
        /\ \A key \in DOMAIN request.params.d :
              /\ request.params.d[key].k \in {"int", "str", "bool"}
              /\ key \in BookListOptions \cup
                         {"created.gt", "created.lt", "created.gte", "created.lte"}
        /\ \A key \in BookListOptions :
              key \in DOMAIN request.params.d <=> args[key] /= None

(***************************************************************************)
(* Properties of the scalar filters of the list calls                      *)
(***************************************************************************)

\* the list calls that flatten **kwargs into query parameters
ScalarFilterOps ==
    {"list_bank_accounts", "alist_bank_accounts", "list_counterparties",
     "alist_counterparties", "list_financial_institutions",
     "alist_financial_institutions"}

\* the query keys of the created range
CreatedParams == {"created." \o key : key \in CREATED_KEYS}

\* the options of a call whose value is a number, a string or a boolean
PrimitiveOptions(kwargs) ==
    {k \in DOMAIN kwargs : kwargs[k].k \in {"int", "str", "bool"}}

\* C11: for list_bank_accounts, list_counterparties, list_financial_institutions
\* and their async variants, the query parameters other than created.* are
\* exactly the supplied options whose value is a number, a string or a boolean,
\* each under its own key with its value unchanged; an option that is None or a
\* structured object is not sent.
C11_ScalarFiltersVerbatim ==
    (pc = "awaiting" /\ op \in ScalarFilterOps) =>
        /\ DOMAIN request.params.d \ CreatedParams = PrimitiveOptions(args.kwargs.d)
        /\ \A k \in PrimitiveOptions(args.kwargs.d) :
               request.params.d[k] = args.kwargs.d[k]

\* a list call passed an option as None sent other parameters and not that one
C11_Witness ==
    /\ pc = "awaiting"
    /\ op \in ScalarFilterOps
    /\ \E k \in DOMAIN args.kwargs.d : args.kwargs.d[k] = None
    /\ DOMAIN request.params.d /= {}
    /\ DOMAIN request.params.d /= DOMAIN args.kwargs.d

(***************************************************************************)
(* Properties of the blocking and the non-blocking variant of a method     *)
(***************************************************************************)

\* the blocking methods: those with an a-prefixed variant
Blocking == {o \in Ops : ("a" \o o) \in Ops}

\* the other variant of a method
Twin(o) ==
    IF o \in Blocking THEN "a" \o o ELSE CHOOSE b \in Blocking : "a" \o b = o

\* the transport handle the other variant of a method calls
TwinHandle(o) == IF Route(Twin(o)).handle = "_client" THEN client ELSE async_client

\* C12: the blocking and the a-prefixed variant of every operation, called with
\* the same arguments, produce the same HTTP method, path, query parameters
\* and JSON body, and given the same response the same outcome: the same
\* returned value, or the same error kind and fields.
C12_VariantsAgree ==
    /\ pc = "awaiting" =>
          LET twin == Request(Twin(op), args, TwinHandle(op))
          IN /\ Twin(op) \in Ops \ {op}
             /\ args \in ArgsPoolOf[Twin(op)]
             /\ twin.handle /= request.handle
             /\ twin.method = request.method
             /\ twin.path = request.path
             /\ twin.params = request.params
             /\ twin.json = request.json
    /\ pc = "returned" => outcome = Finish(Twin(op), response)

\* alist_bank_accounts was called with a created range and a limit, and sent
\* what list_bank_accounts sends for them
C12_Witness ==
    /\ pc = "awaiting"
    /\ op = "alist_bank_accounts"
    /\ request.handle = "_async_client"
    /\ {"created.gte", "limit"} \subseteq DOMAIN request.params.d
    /\ request.params = JObj(list_bank_accounts(args))

(***************************************************************************)
(* Properties of the number of requests a call issues                      *)
(***************************************************************************)

\* C13: every invocation of a client operation issues exactly one transport
\* request, whatever the response: entering a method sends one request, and
\* from the response on (a 429, a 5xx, any other failure, a page with
\* has_more = true) the method ends with its outcome and nothing more is sent
\* until the next invocation.
C13_OneRequestPerCall ==
    [][ /\ (pc = "idle" /\ pc' = "awaiting") => (sent' = sent + 1 /\ request' /= None)
        /\ (pc = "idle" /\ pc' = "idle") => sent' = sent
        /\ pc = "awaiting" =>
              (pc' = "returned" /\ sent' = sent /\ outcome' /= None /\ request' = None)
        /\ pc = "returned" => (pc' = "idle" /\ sent' = sent /\ request' = None) ]_vars

\* a list call was answered 200 with a page whose has_more is true, returned
\* that page and had sent one request
C13_Witness ==
    /\ pc = "returned"
    /\ sent = 1
    /\ op \in {"list_account_numbers", "alist_book_transfers"}
    /\ response.status_code = 200
    /\ outcome.ok
    /\ outcome.v.f.has_more = JBool(TRUE)

(***************************************************************************)
(* Properties of cancel and clear                                          *)
(***************************************************************************)

CancelOps == {"cancel_book_transfer", "acancel_book_transfer"}
ClearOps == {"clear_book_transfer", "aclear_book_transfer"}

\* call c got a 400 whose body is a transfer_error
TransferError400(c) ==
    /\ c.pc = "returned"
    /\ c.response /= None
    /\ c.response.status_code = 400
    /\ ErrorShaped(c.response.body)
    /\ c.response.body.d.type = JStr("transfer_error")

\* C14: cancel_book_transfer and clear_book_transfer never pre-check the
\* transfer's status: after every sequence of earlier calls on the same client
\* (a get_book_transfer that returned a status other than HOLD among them)
\* they send POST /transfers/book/{id}/cancel, resp. /clear; and when the
\* server answers 400 with a transfer_error body the call fails with the API
\* error whose code is the body's code.
C14_CancelClearAlwaysSent ==
    \A i \in DOMAIN calls :
        LET c == calls[i] IN
        c.op \in CancelOps \cup ClearOps =>
            /\ c.request /= None
            /\ c.request.method = "POST"
            /\ c.request.path = "/transfers/book/" \o c.args.book_transfer_id.s
                                   \o (IF c.op \in CancelOps THEN "/cancel" ELSE "/clear")
            /\ c.request.params = Absent /\ c.request.json = Absent
            /\ TransferError400(c) =>
                  /\ ~c.outcome.ok
                  /\ c.outcome.err.cls = "ColumnClientException"
                  /\ c.outcome.err.status_code = JInt(400)
                  /\ c.outcome.err.type = JStr("transfer_error")
                  /\ c.outcome.err.code = c.response.body.d.code

\* get_book_transfer returned a COMPLETED transfer; cancel_book_transfer of
\* the same transfer was then sent and failed with invalid_state
C14_Witness ==
    /\ Len(calls) = 2
    /\ calls[1].op = "get_book_transfer"
    /\ calls[1].pc = "returned"
    /\ calls[1].outcome.ok
    /\ calls[1].outcome.v.f.status = JStr("COMPLETED")
    /\ calls[2].op = "cancel_book_transfer"
    /\ calls[2].args = calls[1].args
    /\ calls[2].request.path = "/transfers/book/book_abc/cancel"
    /\ TransferError400(calls[2])
    /\ calls[2].outcome.err.code = JStr("invalid_state")

(***************************************************************************)
(* Properties of the credential                                            *)
(***************************************************************************)

\* HTTP basic authentication with an empty username and the key as password
BasicAuth(key) == <<"", key>>

\* C15: every request issued through either transport handle of a client
\* carries HTTP basic authentication with an empty username and the client's
\* API key as the password; the blocking and the non-blocking handle use the
\* same credential and the same base URL.
C15_BasicAuthOnBothHandles ==
    /\ client /= None =>
          /\ client.auth = BasicAuth(api_key.s)
          /\ async_client.auth = client.auth
          /\ async_client.base_url = client.base_url
    /\ pc = "awaiting" =>
          /\ request.auth = BasicAuth(api_key.s)
          /\ request.base_url = client.base_url
          /\ request.base_url = async_client.base_url

\* a request went out through the non-blocking handle of a client built
\* from a live_ key, with that key as its password
C15_Witness ==
    /\ pc = "awaiting"
    /\ request.handle = "_async_client"
    /\ api_key = JStr(LIVE_PREFIX \o <<"4", "2">>)
    /\ request.auth[1] = ""
    /\ request.auth[2] = LIVE_PREFIX \o <<"4", "2">>

(***************************************************************************)
(* Properties of calls in progress together and one after another          *)
(***************************************************************************)

\* the transport handle method o calls
HandleOf(o) == IF Route(o).handle = "_client" THEN client ELSE async_client

\* C16: for the calls issued through one client, in any order and any
\* interleaving of blocking and non-blocking calls, the request a call builds
\* depends only on that call's own arguments and its outcome only on its own
\* response: each is what the method makes of them alone, and two calls of a
\* method with the same arguments build the same request and, answered alike,
\* end alike, whatever was issued before or is in progress with them.
C16_CallsIndependent ==
    /\ \A i \in DOMAIN calls :
          LET c == calls[i] IN
          /\ c.request = Request(c.op, c.args, HandleOf(c.op))
          /\ c.pc = "returned" => c.outcome = Finish(c.op, c.response)
    /\ \A i, j \in DOMAIN calls :
          (calls[i].op = calls[j].op /\ calls[i].args = calls[j].args) =>
              /\ calls[i].request = calls[j].request
              /\ (/\ calls[i].pc = "returned" /\ calls[j].pc = "returned"
                  /\ calls[i].response = calls[j].response)
                 => calls[i].outcome = calls[j].outcome

\* a non-blocking cancel is waiting for its response; a blocking
\* get_bank_account entered after it has returned its account
C16_Witness ==
    /\ Len(calls) = 2
    /\ calls[1].op = "acancel_book_transfer"
    /\ calls[1].pc = "awaiting"
    /\ calls[2].op = "get_bank_account"
    /\ calls[2].pc = "returned"
    /\ calls[2].outcome.ok
    /\ calls[2].outcome.v.cls = "BankAccount"

\* the methods that read one object
ReadOps == {o \in Ops : Route(o).method = "GET" /\ Route(o).idarg /= ""}

\* C17: the client never caches: two successive calls of the same read
\* operation with the same arguments each issue their own request, and the
\* second call returns the value decoded from the second response, even when
\* it differs from the first.
C17_NoCaching ==
    \A i, j \in DOMAIN calls :
        (/\ i < j
         /\ calls[i].op \in ReadOps
         /\ calls[j].op = calls[i].op
         /\ calls[j].args = calls[i].args) =>
            /\ calls[i].request /= None
            /\ calls[j].request /= None
            /\ calls[j].pc = "returned" =>
                  /\ calls[j].response /= None
                  /\ calls[j].response.url = Url(calls[j].request)
                  /\ calls[j].outcome = _parse_response(calls[j].response, Route(calls[j].op).model)

\* get_bank_account of one account was called twice; the server sent another
\* description the second time and the second call returned it
C17_Witness ==
    /\ Len(calls) = 2
    /\ calls[1].op = "get_bank_account"
    /\ calls[2].op = "get_bank_account"
    /\ calls[1].args = calls[2].args
    /\ calls[1].pc = "returned" /\ calls[2].pc = "returned"
    /\ calls[1].outcome.ok /\ calls[2].outcome.ok
    /\ calls[1].outcome.v.f.description = JStr("description")
    /\ calls[2].outcome.v.f.description = JStr("renamed")

(***************************************************************************)
(* Properties of the environment of the key                                *)
(***************************************************************************)

\* the request method o builds from arguments a through a handle that was
\* given the base address and no key of either environment
KeylessRequest(o, a) == Request(o, a, Client(COLUMN_API_ADDRESS, BasicAuth(<<>>)))

\* C18: the environment of the key does not alter requests: a client built
\* from a test_ key and one built from a live_ key produce, for the same
\* operation and arguments, the same base URL, HTTP method, path, query
\* parameters and JSON body; they differ only in the credential and in the
\* environment they report. Stated of each client: whichever its environment,
\* these five are what the operation and the arguments alone determine.
C18_EnvironmentLeavesRequestsAlone ==
    pc = "awaiting" =>
        /\ env \in {JStr("test"), JStr("live")}
        /\ request.base_url = KeylessRequest(op, args).base_url
        /\ request.method = KeylessRequest(op, args).method
        /\ request.path = KeylessRequest(op, args).path
        /\ request.params = KeylessRequest(op, args).params
        /\ request.json = KeylessRequest(op, args).json
        /\ request.auth = BasicAuth(api_key.s)

\* a client built from a test_ key sent a list request with query parameters
\* to the one base address
C18_Witness ==
    /\ pc = "awaiting"
    /\ env = JStr("test")
    /\ KeyBegins(api_key.s, TEST_PREFIX)
    /\ op = "list_counterparties"
    /\ request.base_url = COLUMN_API_ADDRESS
    /\ DOMAIN request.params.d /= {}

(***************************************************************************)
(* Properties of the text of the raised API error                          *)
(***************************************************************************)

\* the formatted fields of a text, in the order they appear in it: a text is
\* kept as its parts, a literal part before each formatted field
FormattedFields(text) == [i \in 1..(Len(text) \div 2) |-> text[2 * i]]

\* C19: the human-readable message of the raised API error contains the
\* request URL, the error type, the error code, the details map and the HTTP
\* status, appearing in that order.
C19_MessageOrder ==
    (pc = "returned" /\ ~outcome.ok /\ outcome.err.cls = "ColumnClientException") =>
        LET b == response.body.d
        IN FormattedFields(outcome.err.args) =
              << response.url, b.type, b.code, b.details, JInt(response.status_code) >>

\* get_counterparty was answered 404 with an entity_error / not_found body and
\* raised the API error whose text names them
C19_Witness ==
    /\ pc = "returned"
    /\ op = "get_counterparty"
    /\ response.status_code = 404
    /\ ~outcome.ok
    /\ outcome.err.cls = "ColumnClientException"
    /\ outcome.err.args[1] = "Error calling "
    /\ outcome.err.args[4] = response.body.d.type
    /\ outcome.err.args[6] = response.body.d.code
    /\ outcome.err.args[6] /= outcome.err.args[4]

(***************************************************************************)
(* Properties of the bank accounts returned                                *)
(***************************************************************************)

BankAccountTypes == {"CHECKING", "OVERDRAFT_RESERVE", "PROGRAM_RESERVE"}

\* a decoded BankAccount of one of the three types, with four balances that
\* are non-negative integers
InRange(account) ==
    /\ account.f.type.k = "str"
    /\ account.f.type.s \in BankAccountTypes
    /\ \A amount \in {"available_amount", "holding_amount", "locked_amount",
                       "pending_amount"} :
          /\ account.f.balances.f[amount].k = "int"
          /\ account.f.balances.f[amount].n >= 0

\* the bank accounts in a returned value
BankAccountsIn(v) ==
    IF v.k /= "model" THEN {}
    ELSE IF v.cls = "BankAccount" THEN {v}
    ELSE IF v.cls = "BankAccountList"
         THEN {v.f.bank_accounts.l[i] : i \in DOMAIN v.f.bank_accounts.l}
    ELSE {}

\* C20: every BankAccount returned by any operation (create, get, update and
\* list bank accounts) has its type among CHECKING, OVERDRAFT_RESERVE and
\* PROGRAM_RESERVE and four balances that are non-negative integers; a 200 body
\* with another type or a negative balance is a decode failure and yields no
\* BankAccount.
C20_BankAccountInRange ==
    (pc = "returned" /\ outcome.ok) =>
        \A account \in BankAccountsIn(outcome.v) : InRange(account)

(***************************************************************************)
(* Properties of the book transfers returned                               *)
(***************************************************************************)

\* the book transfers in a returned value
BookTransfersIn(v) ==
    IF v.k /= "model" THEN {}
    ELSE IF v.cls = "BookTransfer" THEN {v}
    ELSE IF v.cls = "BookTransferList" THEN {v.f.data.l[i] : i \in DOMAIN v.f.data.l}
    ELSE {}

\* the transfer objects of a 200 body of a method that returns transfers
TransferObjectsIn(model, body) ==
    IF body.k /= "dict" THEN {}
    ELSE IF model = "BookTransfer" THEN {body}
    ELSE IF model = "BookTransferList" /\ "data" \in DOMAIN body.d /\ body.d.data.k = "list"
         THEN {body.d.data.l[i] : i \in DOMAIN body.d.data.l}
    ELSE {}

\* a transfer object whose status is a string outside the four
OtherStatus(t) ==
    /\ t.k = "dict"
    /\ "status" \in DOMAIN t.d
    /\ t.d.status.k = "str"
    /\ t.d.status.s \notin TransferStatus

\* C21: every BookTransfer returned by any operation (create, get and list
\* book transfers) has its status among REJECTED, COMPLETED, HOLD and
\* CANCELED; a 200 body whose status is any other value is a decode failure
\* and yields no BookTransfer.
C21_TransferStatusInRange ==
    pc = "returned" =>
        /\ outcome.ok =>
              \A t \in BookTransfersIn(outcome.v) :
                  t.f.status.k = "str" /\ t.f.status.s \in TransferStatus
        /\ (/\ response.status_code = 200
            /\ \E t \in TransferObjectsIn(Route(op).model, response.body) : OtherStatus(t))
           => (~outcome.ok /\ outcome.err.cls = "ValidationError")

\* list_book_transfers got a page whose second transfer is PENDING and
\* failed to decode it
C21_Witness ==
    /\ pc = "returned"
    /\ op = "list_book_transfers"
    /\ response.status_code = 200
    /\ response.body.k = "dict"
    /\ "data" \in DOMAIN response.body.d
    /\ response.body.d.data.k = "list"
    /\ Len(response.body.d.data.l) = 2
    /\ OtherStatus(response.body.d.data.l[2])
    /\ ~outcome.ok
    /\ outcome.err = ValidationError("BookTransferList")

(***************************************************************************)
(* Properties of the method and the path of a request                      *)
(***************************************************************************)

\* the variant of a method that the listing of paths names: the blocking one
BlockingOf(o) == IF o \in Blocking THEN o ELSE Twin(o)

\* the path templates the specification lists, as the text before and after
\* the id, for the methods they are listed for
ListedTemplate(o) ==
    LET b == BlockingOf(o) IN
    CASE b \in {"get_entity", "delete_entity"} -> <<"/entities/", "">>
      [] b \in {"get_bank_account", "update_bank_account", "delete_bank_account"} ->
           <<"/entities/bank-account/", "">>
      [] b \in {"create_account_number", "list_account_numbers"} ->
           <<"/bank-accounts/", "/account-numbers">>
      [] b \in {"list_counterparties", "create_counterparty"} -> <<"/counterparties", "">>
      [] b = "get_financial_institution" -> <<"/institutions/", "">>
      [] b = "validate_iban" -> <<"/iban/", "">>
      [] b \in {"create_book_transfer", "list_book_transfers"} -> <<"/transfers/book", "">>
      [] b = "cancel_book_transfer" -> <<"/transfers/book/", "/cancel">>
      [] b = "clear_book_transfer" -> <<"/transfers/book/", "/clear">>
      [] OTHER -> <<>>

\* the id a call was given, "" when its method takes none
GivenId(o, a) == IF Route(o).idarg = "" THEN "" ELSE a[Route(o).idarg].s

\* C22: for every operation the HTTP method and the path template are fixed,
\* whatever the optional arguments; the path is the template with the given id
\* substituted verbatim; and the templates are those the specification lists,
\* /bank-accounts/{id}/account-numbers for listing and for creating the
\* account numbers of a bank account among them.
C22_PathTemplates ==
    pc = "awaiting" =>
        /\ request.method = Route(op).method
        /\ request.path = Route(op).prefix \o GivenId(op, args) \o Route(op).suffix
        /\ ListedTemplate(op) /= <<>> =>
              request.path = ListedTemplate(op)[1] \o GivenId(op, args) \o ListedTemplate(op)[2]

(***************************************************************************)
(* Properties of the propagation of failures                               *)
(***************************************************************************)

\* the 200 body of a method that returns a model cannot be decoded: it is no
\* object, names no kind of entity, lacks a declared field or holds a value
\* that has no conversion to the declared type
Undecodable(o, body) ==
    /\ ReturnsModel(o)
    /\ \/ body.k /= "dict"
       \/ /\ body.k = "dict"
          /\ LET M == DeclaredShape(o, body) IN
             \/ M = ""
             \/ /\ M /= ""
                /\ \E f \in DOMAIN Schema(M) :
                      \/ f \notin DOMAIN body.d
                      \/ f \in DOMAIN body.d /\ Unconvertible(Schema(M)[f], body.d[f])

\* the response is a failure: an error status or an unexpected one, a body
\* that is no JSON, or a 200 body that cannot be decoded
FailingResponse(o, resp) ==
    \/ resp.status_code /= 200
    \/ resp.body.k = "notjson"
    \/ Undecodable(o, resp.body)

ErrorClasses ==
    {"ColumnClientException", "ValidationError", "JSONDecodeError", "ValueError",
     "KeyError", "TypeError"}

\* C23: every failure of an operation (invalid credential, API error, decode
\* error, unexpected status) reaches the immediate caller as an error: a key
\* that is refused leaves no client, on any failing response the operation
\* returns no value and substitutes no default, and the outcome of a call is
\* always exactly one of a returned value and a raised error.
C23_FailuresPropagate ==
    /\ ctor_error /= None => (client = None /\ ctor_error.err.cls = "ValueError")
    /\ pc = "returned" =>
          /\ outcome /= None
          /\ IF outcome.ok THEN DOMAIN outcome = {"ok", "v"}
             ELSE DOMAIN outcome = {"ok", "err"} /\ outcome.err.cls \in ErrorClasses
          /\ FailingResponse(op, response) => ~outcome.ok

\* get_counterparty got a 200 whose body lacks a declared field and raised
\* ValidationError instead of returning a counterparty
C23_Witness ==
    /\ pc = "returned"
    /\ op = "get_counterparty"
    /\ response.status_code = 200
    /\ response.body.k = "dict"
    /\ Undecodable(op, response.body)
    /\ ~outcome.ok
    /\ outcome.err.cls = "ValidationError"

(***************************************************************************)
(* Properties of the configuration of a client                             *)
(***************************************************************************)

\* C24: after construction the client's stored API key, environment, base URL
\* and its two transport handles are never changed by any operation: after
\* any sequence of calls, successful or failing, they equal the values set at
\* construction.
C24_ConfigurationFrozen ==
    [][ /\ client /= None =>
              /\ api_key' = api_key
              /\ env' = env
              /\ client' = client
              /\ async_client' = async_client
        /\ (client = None /\ client' /= None) =>
              /\ client' = Client(COLUMN_API_ADDRESS, <<"", api_key'.s>>)
              /\ async_client' = AsyncClient(COLUMN_API_ADDRESS, <<"", api_key'.s>>)
              /\ env' = _parse_env(api_key'.s).v ]_vars

\* a client built from a test_ key was refused with 401 on its second call
\* and holds the key, the environment and the handles it was built with
C24_Witness ==
    /\ sent = 2
    /\ pc = "returned"
    /\ response.status_code = 401
    /\ ~outcome.ok
    /\ env = JStr("test")
    /\ api_key = JStr(TEST_PREFIX \o <<"4", "2">>)
    /\ client = Client(COLUMN_API_ADDRESS, <<"", TEST_PREFIX \o <<"4", "2">>>>)
    /\ async_client = AsyncClient(COLUMN_API_ADDRESS, <<"", TEST_PREFIX \o <<"4", "2">>>>)

(***************************************************************************)
(* Properties of the order of the checks on an entity response             *)
(***************************************************************************)

EntityOps == {"get_entity", "aget_entity", "submit_document", "asubmit_document"}

\* the error raised for a body whose type names no kind of entity
UnhandledEntityType(err) ==
    err.cls = "ValueError" /\ err.msg = "Unhandled entity type: "

\* C25: in get_entity, submit_document and their async variants the status
\* code is dispatched on before the type discriminator is read: a response
\* with an error status whose body has type "entity_error" fails with the API
\* error, never with the unrecognized-entity-type error; and a 200 body that
\* has no type field at all never yields an entity.
C25_StatusBeforeDiscriminator ==
    (pc = "returned" /\ op \in EntityOps) =>
        /\ (/\ ErrorStatus(response.status_code)
            /\ ErrorShaped(response.body)
            /\ response.body.d.type = JStr("entity_error"))
           => /\ ~outcome.ok
              /\ outcome.err.cls = "ColumnClientException"
              /\ outcome.err.type = JStr("entity_error")
              /\ outcome.err.status_code = JInt(response.status_code)
        /\ response.status_code /= 200 =>
              (~outcome.ok /\ ~UnhandledEntityType(outcome.err))
        /\ (/\ response.status_code = 200
            /\ response.body.k = "dict"
            /\ "type" \notin DOMAIN response.body.d)
           => (~outcome.ok /\ outcome.err = KeyError("type"))

\* submit_document got a 400 whose body is an entity_error and raised the API
\* error of that type
C25_Witness ==
    /\ pc = "returned"
    /\ op = "submit_document"
    /\ response.status_code = 400
    /\ ErrorShaped(response.body)
    /\ response.body.d.type = JStr("entity_error")
    /\ ~outcome.ok
    /\ outcome.err.cls = "ColumnClientException"
    /\ outcome.err.type = JStr("entity_error")
    /\ outcome.err.code = JStr("not_found")

(***************************************************************************)
(* Properties of the order of parsing and status dispatch                  *)
(***************************************************************************)

\* the methods that return nothing
BodylessOps == {o \in Ops : Route(o).tail = "_handle_response"}

\* C26: the response body is parsed as JSON before the status code is
\* examined, for every operation: a response whose body is not JSON-parseable
\* makes the operation fail with a parse error whatever its status, so the
\* body-less operations (delete_entity, delete_bank_account,
\* delete_counterparty, cancel_book_transfer, clear_book_transfer) succeed on
\* status 200 only if the body is JSON-parseable, and then return nothing
\* without validating the body's shape.
C26_ParsedBeforeStatus ==
    pc = "returned" =>
        /\ response.body.k = "notjson" =>
              (~outcome.ok /\ outcome.err = JSONDecodeError)
        /\ op \in BodylessOps =>
              /\ outcome.ok => (response.status_code = 200 /\ response.body.k /= "notjson")
              /\ (response.status_code = 200 /\ response.body.k /= "notjson") =>
                    outcome = Returns(None)

\* delete_counterparty got a 204 with an empty body and failed with the
\* parse error, not with the unexpected-status error
C26_Witness ==
    /\ pc = "returned"
    /\ op = "delete_counterparty"
    /\ response.status_code = 204
    /\ response.body.k = "notjson"
    /\ ~outcome.ok
    /\ outcome.err = JSONDecodeError

(***************************************************************************)
(* Properties of error responses of another shape                          *)
(***************************************************************************)

\* C27: when a response has an error status (400, 401, 403, 404, 429 or
\* >= 500) but its body does not match the error-response shape (a type
\* outside the 9 categories, a missing code, message, documentation_url or
\* details, or a details value that is no string), the operation fails with a
\* validation error that is not the API error and carries no status code or
\* URL; it still returns no value.
C27_MalformedErrorBody ==
    (/\ pc = "returned"
     /\ ErrorStatus(response.status_code)
     /\ response.body.k /= "notjson"
     /\ ~ErrorShaped(response.body))
    => /\ ~outcome.ok
       /\ outcome.err.cls = "ValidationError"
       /\ outcome.err.title = "ColumnErrorResponse"
       /\ DOMAIN outcome.err \cap {"status_code", "url", "type", "code"} = {}

\* get_bank_account got a 404 whose body lacks its code and raised
\* ValidationError
C27_Witness ==
    /\ pc = "returned"
    /\ op = "get_bank_account"
    /\ response.status_code = 404
    /\ response.body.k = "dict"
    /\ "code" \notin DOMAIN response.body.d
    /\ "type" \in DOMAIN response.body.d
    /\ ~outcome.ok
    /\ outcome.err = ValidationError("ColumnErrorResponse")

(***************************************************************************)
(* Properties of values that are set and falsy                             *)
(***************************************************************************)

AccountNumberListOps == {"list_account_numbers", "alist_account_numbers"}

\* the scalar options of list_book_transfers: those outside the created range
BookListScalars == {k \in BOOK_LIST_PARAMETERS : ~contains_created(k)}

\* the arguments of create_book_transfer the claim names
BookCreateScalars == {"amount", "hold", "allow_overdraft", "description"}

\* the entry of d under key k is the value v when v is not None, and there is
\* no entry when it is
KeptUnlessNone(d, k, v) ==
    IF v = None THEN k \notin DOMAIN d ELSE k \in DOMAIN d /\ d[k] = v

\* the value is set and falsy: 0, False or ""
SetButFalsy(v) == IsPrimitive(v) /\ ~Truthy(v)

\* C28: set-but-falsy values are kept and only None is dropped in the scalar
\* part of requests: list_account_numbers sends limit = 0 and an empty-string
\* cursor when given; the flattening of list_bank_accounts,
\* list_counterparties and list_financial_institutions keeps the values 0,
\* False and ""; list_book_transfers keeps every scalar option that is not
\* None; and create_book_transfer keeps amount = 0, hold = False,
\* allow_overdraft = False and description = "" in the body.
C28_FalsyValuesKept ==
    pc = "awaiting" =>
        /\ op \in AccountNumberListOps =>
              \A k \in {"limit", "starting_after", "ending_before"} :
                  KeptUnlessNone(request.params.d, k, args[k])
        /\ op \in ScalarFilterOps =>
              \A k \in DOMAIN args.kwargs.d :
                  /\ SetButFalsy(args.kwargs.d[k]) =>
                        (k \in DOMAIN request.params.d
                           /\ request.params.d[k] = args.kwargs.d[k])
                  /\ args.kwargs.d[k] = None => k \notin DOMAIN request.params.d
        /\ op \in BookListOps =>
              \A k \in BookListScalars : KeptUnlessNone(request.params.d, k, args[k])
        /\ op \in BookCreateOps =>
              \A k \in BookCreateScalars : KeptUnlessNone(request.json.d, k, args[k])

\* list_account_numbers was given limit = 0 and an empty starting_after and
\* no ending_before, and sent the first two and not the third
C28_Witness ==
    /\ pc = "awaiting"
    /\ op = "list_account_numbers"
    /\ args.limit = JInt(0)
    /\ args.starting_after = JStr("")
    /\ args.ending_before = None
    /\ request.params.d = [limit |-> JInt(0), starting_after |-> JStr("")]

====
